---- MODULE Spec2Model ----
(***************************************************************************)
(* Model of the AIS transmission scheduler (simulator/core/ais_scheduler)  *)
(* and of the AIVDM sentence generator (nmea_lib/sentences/aivdm).         *)
(*                                                                         *)
(* Times are whole seconds.  Python dicts keep insertion order, so a dict  *)
(* is a sequence of entries; assigning to an existing key keeps the key's  *)
(* position, assigning to a new key appends.                               *)
(***************************************************************************)
EXTENDS Integers, Sequences, FiniteSets, TLC

VARIABLES
    now,               \* the driver's clock: the time passed to the scheduler
    vessel_schedules,  \* AISMessageScheduler.vessel_schedules
    last_cleanup,      \* AISMessageScheduler.last_cleanup
    last_op,           \* the name of the last operation called
    last_ret,          \* what the last operation returned
    ops,               \* how many scheduler operations the run has called
    sequence_counter,  \* AISMessageGenerator.sequence_counter
    emitted,           \* the messages of the last generate call, each the
                       \* sequence of its sentences
    multi_count,       \* how many multi-fragment messages the generator emitted
    peer,              \* a second AISMessageGenerator instance: its
                       \* sequence_counter, emitted and multi_count
    arg,               \* the input a pure function is applied to
    res,               \* what the function returned for it
    output,            \* a SerialOutput: is_running, serial_port, sentences_sent
    true_returns,      \* how many send_sentence calls have returned True
    producers,         \* the threads that call generate_type_5 on the one
                       \* generator: where each is in the call, and its values
    lock,              \* the lock the producers put around a call: its holder,
                       \* "free", or "absent" when they use none
    recent,            \* the last two messages the producers emitted: who
                       \* emitted each and its sequential id
    not_before,        \* for each pair the AIS loop has sent: the time of that
                       \* send plus the pair's interval at that send
    threads            \* the engine's simulation thread and AIS thread: where
                       \* each is inside its scheduler call, and its locals

vars == <<now, vessel_schedules, last_cleanup, last_op, last_ret, ops,
          sequence_counter, emitted, multi_count, peer, arg, res,
          output, true_returns, producers, lock, recent, not_before, threads>>

schedVars == <<now, vessel_schedules, last_cleanup>>
genVars == <<sequence_counter, emitted>>
countVars == <<multi_count, peer>>
pureVars == <<arg, res>>
serialVars == <<output, true_returns>>
prodVars == <<producers, lock, recent>>
loopVars == <<not_before>>
raceVars == <<threads>>
extVars == <<serialVars, prodVars, loopVars, raceVars>>

-----------------------------------------------------------------------------
(* Bounds of the model *)

MaxOps == 3         \* a run calls at most this many scheduler operations

MMSIs == {1, 2}

\* The instants the driver's clock takes: the start, the cleanup interval,
\* the inactivity threshold and one second past it.
TimeLine == {0, 300, 3600, 3601}

\* Speeds (knots) at and just above every threshold of update_vessel_intervals.
Speeds == {2, 3, 14, 15, 23, 24}

-----------------------------------------------------------------------------
(* Constants of the program *)

HIGH == 1
MEDIUM == 2
LOW == 3
PERIODIC == 4

None == -1                  \* last_sent: Optional[datetime] = None
cleanup_interval == 300     \* timedelta(minutes=5)
inactive_threshold == 3600  \* timedelta(hours=1)

CLASS_A == "A"
CLASS_B == "B"

MessageTypes == {1, 2, 3, 4, 5, 18, 19, 21, 24}

\* _create_message_configs: the 'interval' of each message type
ConfigInterval(t) ==
    CASE t = 1 -> 2
      [] t = 2 -> 2
      [] t = 3 -> 2
      [] t = 4 -> 10
      [] t = 5 -> 360
      [] t = 18 -> 3
      [] t = 19 -> 30
      [] t = 21 -> 180
      [] t = 24 -> 360

-----------------------------------------------------------------------------
(* ScheduledMessage *)

ScheduledMessage(message_type, vessel_mmsi, next_transmission, interval, priority) ==
    [message_type |-> message_type,
     vessel_mmsi |-> vessel_mmsi,
     next_transmission |-> next_transmission,
     interval |-> interval,
     priority |-> priority,
     last_sent |-> None,
     send_count |-> 0]

\* a variant of is_due that is late by one instant
is_due_strict(msg, current_time) == current_time > msg.next_transmission

\* ScheduledMessage.is_due
is_due(msg, current_time) == current_time >= msg.next_transmission

\* a variant of mark_sent that steps from the old next-due time
mark_sent_keeps_phase(msg, sent_time) ==
    [msg EXCEPT !.last_sent = sent_time,
                !.send_count = @ + 1,
                !.next_transmission = @ + msg.interval]

\* a variant of mark_sent that does not count the send
mark_sent_uncounted(msg, sent_time) ==
    [msg EXCEPT !.last_sent = sent_time,
                !.next_transmission = sent_time + msg.interval]

\* ScheduledMessage.mark_sent
mark_sent(msg, sent_time) ==
    [msg EXCEPT !.last_sent = sent_time,
                !.send_count = @ + 1,
                !.next_transmission = sent_time + msg.interval]

-----------------------------------------------------------------------------
(* VesselSchedule: vessel_mmsi, vessel_class, messages (dict by type) *)

VesselSchedule(vessel_mmsi, vessel_class) ==
    [vessel_mmsi |-> vessel_mmsi, vessel_class |-> vessel_class, messages |-> <<>>]

\* position of message_type in the messages dict, 0 when absent
MsgIndex(messages, message_type) ==
    IF \E i \in 1..Len(messages) : messages[i].message_type = message_type
    THEN CHOOSE i \in 1..Len(messages) : messages[i].message_type = message_type
    ELSE 0

add_message_type(schedule, message_type, interval, priority, start_time) ==
    LET scheduled_msg == ScheduledMessage(message_type, schedule.vessel_mmsi,
                                          start_time, interval, priority)
        i == MsgIndex(schedule.messages, message_type)
    IN  [schedule EXCEPT !.messages =
            IF i = 0 THEN Append(@, scheduled_msg) ELSE [@ EXCEPT ![i] = scheduled_msg]]

\* list.sort(key=priority) is stable: x, the last of the list, goes behind
\* every entry of the sorted list s whose priority is not above its own
InsertByPriority(s, x) ==
    LET k == Cardinality({i \in 1..Len(s) : s[i].priority <= x.priority})
    IN  SubSeq(s, 1, k) \o <<x>> \o SubSeq(s, k + 1, Len(s))

\* the sorted front is computed once, then the last message is inserted
RECURSIVE SortByPriority(_)
SortByPriority(s) ==
    IF s = <<>> THEN <<>>
    ELSE LET n == Len(s)
         IN  CHOOSE r \in {InsertByPriority(sorted, s[n]) :
                               sorted \in {SortByPriority(SubSeq(s, 1, n - 1))}} : TRUE

VesselSchedule_get_due_messages(schedule, current_time) ==
    SortByPriority(SelectSeq(schedule.messages, LAMBDA msg : is_due(msg, current_time)))

VesselSchedule_mark_message_sent(schedule, message_type, sent_time) ==
    LET i == MsgIndex(schedule.messages, message_type)
    IN  IF i # 0
        THEN [schedule EXCEPT !.messages[i] = mark_sent(@, sent_time)]
        ELSE schedule

-----------------------------------------------------------------------------
(* AISMessageScheduler *)

\* position of vessel_mmsi in the vessel_schedules dict, 0 when absent
SchedIndex(schedules, vessel_mmsi) ==
    IF \E i \in 1..Len(schedules) : schedules[i].vessel_mmsi = vessel_mmsi
    THEN CHOOSE i \in 1..Len(schedules) : schedules[i].vessel_mmsi = vessel_mmsi
    ELSE 0

\* a variant of the assignment that keeps the entry the key had
PutSchedule_appending(schedules, schedule) ==
    Append(schedules, schedule)

\* self.vessel_schedules[mmsi] = schedule
PutSchedule(schedules, schedule) ==
    LET i == SchedIndex(schedules, schedule.vessel_mmsi)
    IN  IF i = 0 THEN Append(schedules, schedule) ELSE [schedules EXCEPT ![i] = schedule]

\* del self.vessel_schedules[mmsi]
DelSchedule(schedules, vessel_mmsi) ==
    SelectSeq(schedules, LAMBDA s : s.vessel_mmsi # vessel_mmsi)

\* a variant of add_vessel that swaps the first-due offsets of the dynamic
\* and the static report
add_vessel_type5_first(schedules, mmsi, vessel_class, start_time) ==
    LET s0 == VesselSchedule(mmsi, vessel_class)
        s1 == IF vessel_class = CLASS_A
              THEN add_message_type(add_message_type(add_message_type(add_message_type(s0,
                       1, ConfigInterval(1), HIGH, start_time + 30),
                       5, ConfigInterval(5), LOW, start_time),
                       2, ConfigInterval(2) * 5, HIGH, start_time + 10),
                       3, ConfigInterval(3) * 10, HIGH, start_time + 20)
              ELSE add_message_type(add_message_type(add_message_type(s0,
                       18, ConfigInterval(18), HIGH, start_time + 15),
                       19, ConfigInterval(19), MEDIUM, start_time),
                       24, ConfigInterval(24), LOW, start_time + 45)
    IN  PutSchedule(schedules, s1)

add_vessel(schedules, mmsi, vessel_class, start_time) ==
    LET s0 == VesselSchedule(mmsi, vessel_class)
        s1 == IF vessel_class = CLASS_A
              THEN add_message_type(add_message_type(add_message_type(add_message_type(s0,
                       1, ConfigInterval(1), HIGH, start_time),
                       5, ConfigInterval(5), LOW, start_time + 30),
                       2, ConfigInterval(2) * 5, HIGH, start_time + 10),
                       3, ConfigInterval(3) * 10, HIGH, start_time + 20)
              ELSE IF vessel_class = CLASS_B
              THEN add_message_type(add_message_type(add_message_type(s0,
                       18, ConfigInterval(18), HIGH, start_time),
                       19, ConfigInterval(19), MEDIUM, start_time + 15),
                       24, ConfigInterval(24), LOW, start_time + 45)
              ELSE s0
    IN  PutSchedule(schedules, s1)

add_base_station(schedules, mmsi, start_time) ==
    PutSchedule(schedules,
        add_message_type(VesselSchedule(mmsi, CLASS_A),
                         4, ConfigInterval(4), PERIODIC, start_time))

add_aid_to_navigation(schedules, mmsi, start_time) ==
    PutSchedule(schedules,
        add_message_type(VesselSchedule(mmsi, CLASS_A),
                         21, ConfigInterval(21), PERIODIC, start_time))

\* the (mmsi, type) pairs of a list of messages
Pairs(msgs) ==
    [i \in 1..Len(msgs) |-> <<msgs[i].vessel_mmsi, msgs[i].message_type>>]

RECURSIVE get_due_messages(_, _)
get_due_messages(schedules, current_time) ==
    IF schedules = <<>> THEN <<>>
    ELSE Pairs(VesselSchedule_get_due_messages(schedules[1], current_time))
         \o get_due_messages(Tail(schedules), current_time)

mark_message_sent(schedules, vessel_mmsi, message_type, sent_time) ==
    LET i == SchedIndex(schedules, vessel_mmsi)
    IN  IF i # 0
        THEN [schedules EXCEPT
                 ![i] = VesselSchedule_mark_message_sent(@, message_type, sent_time)]
        ELSE schedules

remove_vessel(schedules, vessel_mmsi) ==
    IF SchedIndex(schedules, vessel_mmsi) # 0
    THEN DelSchedule(schedules, vessel_mmsi)
    ELSE schedules

\* dict.get(key, 0) and dict[key] = value on a dict held as a function
Get0(d, k) == IF k \in DOMAIN d THEN d[k] ELSE 0

Put(d, k, v) == [x \in DOMAIN d \cup {k} |-> IF x = k THEN v ELSE d[x]]

EmptyDict == [x \in {} |-> 0]

\* a variant of the inner loop that stops after the first entry
StatsMessages_first_only(stats, messages) ==
    IF messages = <<>> THEN stats
    ELSE LET msg == messages[1]
             t == msg.message_type
         IN  [stats EXCEPT
                 !.message_types = Put(@, t, [count |-> 1, total_sent |-> msg.send_count]),
                 !.total_messages_sent = @ + msg.send_count]

\* the inner loop of get_transmission_statistics over schedule.messages.items()
RECURSIVE StatsMessages(_, _)
StatsMessages(stats, messages) ==
    IF messages = <<>> THEN stats
    ELSE LET msg == messages[1]
             t == msg.message_type
             mt == IF t \in DOMAIN stats.message_types
                   THEN stats.message_types
                   ELSE Put(stats.message_types, t, [count |-> 0, total_sent |-> 0])
             mt2 == Put(mt, t, [count |-> mt[t].count + 1,
                                total_sent |-> mt[t].total_sent + msg.send_count])
         IN  StatsMessages([stats EXCEPT
                               !.message_types = mt2,
                               !.total_messages_sent = @ + msg.send_count],
                           Tail(messages))

\* the outer loop over self.vessel_schedules.values()
RECURSIVE StatsSchedules(_, _)

\* a variant of the outer loop that sets a class's count to 1 instead of
\* adding 1 to it
StatsSchedules_class_once(stats, schedules) ==
    IF schedules = <<>> THEN stats
    ELSE LET vessel_class == schedules[1].vessel_class
             s1 == [stats EXCEPT !.vessel_classes = Put(@, vessel_class, 1)]
         IN  StatsSchedules(StatsMessages(s1, schedules[1].messages), Tail(schedules))

StatsSchedules(stats, schedules) ==
    IF schedules = <<>> THEN stats
    ELSE LET vessel_class == schedules[1].vessel_class
             s1 == [stats EXCEPT !.vessel_classes =
                       Put(@, vessel_class, Get0(@, vessel_class) + 1)]
         IN  StatsSchedules(StatsMessages(s1, schedules[1].messages), Tail(schedules))

get_transmission_statistics(schedules) ==
    StatsSchedules([total_vessels |-> Len(schedules),
                    vessel_classes |-> EmptyDict,
                    message_types |-> EmptyDict,
                    total_messages_sent |-> 0],
                   schedules)

\* the loop of cleanup_old_schedules that finds a schedule's last activity
RECURSIVE LastActivity(_, _)
LastActivity(last_activity, messages) ==
    IF messages = <<>> THEN last_activity
    ELSE LET msg == messages[1]
         IN  LastActivity(
                 IF msg.last_sent # None
                    /\ (last_activity = None \/ msg.last_sent > last_activity)
                 THEN msg.last_sent
                 ELSE last_activity,
                 Tail(messages))

IsInactive(schedule, current_time) ==
    LET last_activity == LastActivity(None, schedule.messages)
    IN  last_activity # None /\ current_time - last_activity > inactive_threshold

\* a variant of cleanup_old_schedules without the 5-minute guard
cleanup_every_call(schedules, lastCleanup, current_time) ==
    [vessel_schedules |-> SelectSeq(schedules, LAMBDA s : ~IsInactive(s, current_time)),
     last_cleanup |-> current_time]

\* the result is the pair of fields the call leaves behind
cleanup_old_schedules(schedules, lastCleanup, current_time) ==
    IF current_time - lastCleanup < cleanup_interval
    THEN [vessel_schedules |-> schedules, last_cleanup |-> lastCleanup]
    ELSE [vessel_schedules |-> SelectSeq(schedules, LAMBDA s : ~IsInactive(s, current_time)),
          last_cleanup |-> current_time]

\* a variant of the type-1 bands with the boundaries in the upper band
Type1Interval_ge(speed_knots) ==
    IF speed_knots >= 23 THEN 2
    ELSE IF speed_knots >= 14 THEN 6
    ELSE 10

\* the new interval of the type-1 entry
Type1Interval(speed_knots) ==
    IF speed_knots > 23 THEN 2
    ELSE IF speed_knots > 14 THEN 6
    ELSE IF speed_knots > 3 THEN 10
    ELSE 10

\* the new interval of the type-18 entry
Type18Interval(speed_knots) ==
    IF speed_knots > 14 THEN 5
    ELSE IF speed_knots > 2 THEN 30
    ELSE 180

\* a variant that also moves the next transmission of an entry that was
\* sent before to last_sent + interval
SetInterval_rescheduling(schedule, message_type, interval) ==
    LET i == MsgIndex(schedule.messages, message_type)
    IN  IF i # 0
        THEN [schedule EXCEPT !.messages[i].interval = interval,
                              !.messages[i].next_transmission =
                                  IF schedule.messages[i].last_sent # None
                                  THEN schedule.messages[i].last_sent + interval
                                  ELSE @]
        ELSE schedule

\* "schedule.messages[t].interval = new_interval" when t is in the schedule
SetInterval(schedule, message_type, interval) ==
    LET i == MsgIndex(schedule.messages, message_type)
    IN  IF i # 0
        THEN [schedule EXCEPT !.messages[i].interval = interval]
        ELSE schedule

update_vessel_intervals(schedules, vessel_mmsi, speed_knots) ==
    LET i == SchedIndex(schedules, vessel_mmsi)
    IN  IF i = 0 THEN schedules
        ELSE [schedules EXCEPT ![i] =
                 SetInterval(SetInterval(@, 1, Type1Interval(speed_knots)),
                             18, Type18Interval(speed_knots))]

-----------------------------------------------------------------------------
(* The scheduler's operations as steps.  The driver passes its clock as    *)
(* the current time, as the engine's AIS loop does.                        *)

Find(schedules, mmsi) == schedules[SchedIndex(schedules, mmsi)]
Registered(schedules, mmsi) == SchedIndex(schedules, mmsi) # 0
Msg(schedules, mmsi, mtype) ==
    Find(schedules, mmsi).messages[MsgIndex(Find(schedules, mmsi).messages, mtype)]
Scheduled(schedules, mmsi, mtype) ==
    Registered(schedules, mmsi) /\ MsgIndex(Find(schedules, mmsi).messages, mtype) # 0
Targets(schedules) == {schedules[i].vessel_mmsi : i \in 1..Len(schedules)}

\* one more operation is called
Call(name, ret) ==
    /\ ops < MaxOps
    /\ ops' = ops + 1
    /\ last_op' = name
    /\ last_ret' = ret

Tick ==
    /\ \E t \in TimeLine : t > now /\ now' = t
    /\ last_op' = "tick"
    /\ last_ret' = <<>>
    /\ UNCHANGED <<vessel_schedules, last_cleanup, ops, genVars, countVars, pureVars, extVars>>

AddVessel(mmsi, vessel_class) ==
    /\ Call("add_vessel", <<>>)
    /\ vessel_schedules' = add_vessel(vessel_schedules, mmsi, vessel_class, now)
    /\ UNCHANGED <<now, last_cleanup, genVars, countVars, pureVars, extVars>>

AddBaseStation(mmsi) ==
    /\ Call("add_base_station", <<>>)
    /\ vessel_schedules' = add_base_station(vessel_schedules, mmsi, now)
    /\ UNCHANGED <<now, last_cleanup, genVars, countVars, pureVars, extVars>>

AddAidToNavigation(mmsi) ==
    /\ Call("add_aid_to_navigation", <<>>)
    /\ vessel_schedules' = add_aid_to_navigation(vessel_schedules, mmsi, now)
    /\ UNCHANGED <<now, last_cleanup, genVars, countVars, pureVars, extVars>>

RemoveVessel(mmsi) ==
    /\ Call("remove_vessel", <<>>)
    /\ vessel_schedules' = remove_vessel(vessel_schedules, mmsi)
    /\ UNCHANGED <<now, last_cleanup, genVars, countVars, pureVars, extVars>>

GetDueMessages ==
    /\ Call("get_due_messages", get_due_messages(vessel_schedules, now))
    /\ UNCHANGED <<schedVars, genVars, countVars, pureVars, extVars>>

MarkMessageSent(mmsi, mtype) ==
    /\ Call("mark_message_sent", <<>>)
    /\ vessel_schedules' = mark_message_sent(vessel_schedules, mmsi, mtype, now)
    /\ UNCHANGED <<now, last_cleanup, genVars, countVars, pureVars, extVars>>

GetTransmissionStatistics ==
    /\ Call("get_transmission_statistics", get_transmission_statistics(vessel_schedules))
    /\ UNCHANGED <<schedVars, genVars, countVars, pureVars, extVars>>

\* ret: whether the call moved last_cleanup, and the targets it removed
CleanupOldSchedules ==
    LET r == cleanup_old_schedules(vessel_schedules, last_cleanup, now)
    IN  /\ Call("cleanup_old_schedules",
                [effective |-> r.last_cleanup # last_cleanup,
                 removed |-> Targets(vessel_schedules) \ Targets(r.vessel_schedules)])
        /\ vessel_schedules' = r.vessel_schedules
        /\ last_cleanup' = r.last_cleanup
        /\ UNCHANGED <<now, genVars, countVars, pureVars, extVars>>

UpdateVesselIntervals(mmsi, speed_knots) ==
    /\ Call("update_vessel_intervals", <<>>)
    /\ vessel_schedules' = update_vessel_intervals(vessel_schedules, mmsi, speed_knots)
    /\ UNCHANGED <<now, last_cleanup, genVars, countVars, pureVars, extVars>>

\* the threads that share one generator, and a thread outside a call
Producers == {1, 2}

Idle == [pc |-> "idle", value |-> 0, seq_id |-> ""]

\* AISMessageScheduler(), AISMessageGenerator() and SerialOutput(config) as
\* constructed, and no thread in a call
\* the scheduler is constructed at the time start: last_cleanup is
\* datetime.now()
\* neither engine thread is inside a scheduler call
Waiting ==
    [sim |-> [pc |-> "idle", vessel_mmsi |-> 0, speed_knots |-> 0],
     ais |-> [pc |-> "idle", di_used |-> 0, di_pos |-> 0, len |-> 0,
              due_messages |-> <<>>]]

ObjectsAt(start) ==
    /\ now = start
    /\ vessel_schedules = <<>>
    /\ last_cleanup = start
    /\ ops = 0
    /\ last_op = "init"
    /\ last_ret = <<>>
    /\ sequence_counter = 0
    /\ emitted = <<>>
    /\ multi_count = 0
    /\ peer = [sequence_counter |-> 0, emitted |-> <<>>, multi_count |-> 0]
    /\ output = [is_running |-> FALSE, serial_port |-> "None", sentences_sent |-> 0]
    /\ true_returns = 0
    /\ producers = [p \in Producers |-> Idle]
    /\ recent = <<>>
    /\ not_before = [p \in MMSIs \X MessageTypes |-> None]
    /\ threads = Waiting

Objects == ObjectsAt(0)

\* the code has no lock around the generator
Constructed ==
    /\ Objects
    /\ lock = "absent"

Init ==
    /\ Constructed
    /\ arg = <<>>
    /\ res = <<>>

Next ==
    \/ Tick
    \/ \E mmsi \in MMSIs, vessel_class \in {CLASS_A, CLASS_B} : AddVessel(mmsi, vessel_class)
    \/ \E mmsi \in MMSIs : AddBaseStation(mmsi)
    \/ \E mmsi \in MMSIs : AddAidToNavigation(mmsi)
    \/ \E mmsi \in MMSIs : RemoveVessel(mmsi)
    \/ GetDueMessages
    \/ \E mmsi \in MMSIs, mtype \in MessageTypes : MarkMessageSent(mmsi, mtype)
    \/ GetTransmissionStatistics
    \/ CleanupOldSchedules
    \/ \E mmsi \in MMSIs, speed_knots \in Speeds : UpdateVesselIntervals(mmsi, speed_knots)

Spec == Init /\ [][Next]_vars

-----------------------------------------------------------------------------
(* nmea_lib/ais/encoder.py and nmea_lib/sentences/aivdm.py: the sentence   *)
(* generator. A binary payload is a sequence of bits, an armored payload a *)
(* sequence of characters.                                                 *)

\* a variant of the table whose last character repeats the first
AIS_6BIT_ASCII_repeated == [i \in 1..64 |-> IF i = 64 THEN 48 ELSE 47 + i]

\* AIS_6BIT_ASCII, the 64-entry armoring table; a character is written as
\* its code point: '0'..'9' ':' ';' '<' '=' '>' '?' in the first row, '@'
\* 'A'..'O' in the second, 'P'..'Z' '[' '\' ']' '^' '_' in the third, '`'
\* 'a'..'o' in the fourth
AIS_6BIT_ASCII ==
    <<  48,  49,  50,  51,  52,  53,  54,  55,  56,  57,  58,  59,  60,  61,  62,  63,
        64,  65,  66,  67,  68,  69,  70,  71,  72,  73,  74,  75,  76,  77,  78,  79,
        80,  81,  82,  83,  84,  85,  86,  87,  88,  89,  90,  91,  92,  93,  94,  95,
        96,  97,  98,  99, 100, 101, 102, 103, 104, 105, 106, 107, 108, 109, 110, 111 >>

\* the default max_chars / max_chars_per_part of AISMultiPartHandler
MaxCharsPerPart == 56

\* Python's None where a string is expected (the default sequential_id)
NoneStr == "None"

\* str(n) of a one-digit number
Str(n) == <<"0", "1", "2", "3", "4", "5", "6", "7", "8", "9">>[n + 1]

Zeros(n) == [i \in 1..n |-> 0]

Min(a, b) == IF a <= b THEN a ELSE b

\* format(value, '06b'): the 6 bits of a value below 64, most significant first
Bits6(value) == [i \in 1..6 |-> (value \div (2 ^ (6 - i))) % 2]

calculate_fill_bits(binary_length) ==
    LET remainder == binary_length % 6
    IN  IF remainder = 0 THEN 0 ELSE 6 - remainder

\* the loop "while len(binary_data) % 6 != 0: binary_data += '0'"
RECURSIVE PadTo6(_)
PadTo6(binary_data) ==
    IF Len(binary_data) % 6 # 0 THEN PadTo6(Append(binary_data, 0)) ELSE binary_data

\* int(chunk, 2) of the 6 bits that start at position i
ChunkValue(binary_data, i) ==
    32 * binary_data[i] + 16 * binary_data[i + 1] + 8 * binary_data[i + 2]
       + 4 * binary_data[i + 3] + 2 * binary_data[i + 4] + binary_data[i + 5]

encode_binary_to_6bit(binary_data) ==
    LET padded == PadTo6(binary_data)
    IN  [k \in 1..(Len(padded) \div 6) |->
            AIS_6BIT_ASCII[ChunkValue(padded, 6 * (k - 1) + 1) + 1]]

\* a variant of split_message whose parts are one bit short of whole characters
split_message_short(binary_data, max_chars_per_part) ==
    LET max_bits_per_part == max_chars_per_part * 6 - 1
        count == (Len(binary_data) + max_bits_per_part - 1) \div max_bits_per_part
    IN  [k \in 1..count |->
            SubSeq(binary_data, (k - 1) * max_bits_per_part + 1,
                   Min(k * max_bits_per_part, Len(binary_data)))]

split_message(binary_data, max_chars_per_part) ==
    LET max_bits_per_part == max_chars_per_part * 6
        count == (Len(binary_data) + max_bits_per_part - 1) \div max_bits_per_part
    IN  [k \in 1..count |->
            SubSeq(binary_data, (k - 1) * max_bits_per_part + 1,
                   Min(k * max_bits_per_part, Len(binary_data)))]

needs_splitting(binary_data, max_chars) ==
    LET fill_bits == calculate_fill_bits(Len(binary_data))
        total_bits == Len(binary_data) + fill_bits
        encoded_chars == total_bits \div 6
    IN  encoded_chars > max_chars

\* AIVDMSentence.__init__: "sequential_message_id or ''"
AIVDMSentence(total_sentences, sentence_number, sequential_message_id, channel, payload, fill_bits) ==
    [total_sentences |-> total_sentences,
     sentence_number |-> sentence_number,
     sequential_message_id |->
         IF sequential_message_id = NoneStr THEN "" ELSE sequential_message_id,
     channel |-> channel,
     payload |-> payload,
     fill_bits |-> fill_bits]

from_binary_message(binary_data, channel, sequential_id) ==
    IF needs_splitting(binary_data, MaxCharsPerPart)
    THEN LET parts == split_message(binary_data, MaxCharsPerPart)
             total_parts == Len(parts)
         IN  [i \in 1..total_parts |->
                 AIVDMSentence(total_parts, i, sequential_id, channel,
                               encode_binary_to_6bit(parts[i]),
                               calculate_fill_bits(Len(parts[i])))]
    ELSE << AIVDMSentence(1, 1, sequential_id, channel,
                          encode_binary_to_6bit(binary_data),
                          calculate_fill_bits(Len(binary_data))) >>

\* a variant of _get_next_sequence_id that starts again at 1 after 9
get_next_sequence_id_skip0(counter) ==
    LET next == (counter % 9) + 1
    IN  [sequence_counter |-> next, id |-> Str(next)]

\* _get_next_sequence_id that stores the counter it read
get_next_sequence_id_stuck(counter) == [sequence_counter |-> counter, id |-> IF counter > 0 THEN Str(counter) ELSE ""]

\* _get_next_sequence_id: the counter it leaves and the id it returns
get_next_sequence_id(counter) ==
    LET next == (counter + 1) % 10
    IN  [sequence_counter |-> next,
         id |-> IF next > 0 THEN Str(next) ELSE ""]

\* AISBinaryEncoder.encode_type_N: the payload of the kind's length that
\* starts with the 6 bits of the message type; the fields after it are taken
\* as 0 bits but for the part number of a type 24 message (bits 39-40)
EncodedLength(kind) ==
    CASE kind \in {"1", "2", "3", "4", "18", "24A"} -> 168
      [] kind = "5" -> 424
      [] kind = "19" -> 312
      [] kind = "21" -> 272
      [] kind = "24B" -> 172

KindType(kind) ==
    CASE kind = "1" -> 1 [] kind = "2" -> 2 [] kind = "3" -> 3 [] kind = "4" -> 4
      [] kind = "5" -> 5 [] kind = "18" -> 18 [] kind = "19" -> 19
      [] kind = "21" -> 21 [] kind \in {"24A", "24B"} -> 24

encode_type(kind) ==
    [i \in 1..EncodedLength(kind) |->
        IF i <= 6 THEN Bits6(KindType(kind))[i]
        ELSE IF kind = "24B" /\ i = 40 THEN 1
        ELSE 0]

\* generate_type_1 .. generate_type_24: the counter left behind and the
\* sentences of every message emitted by the call, message by message
generate_type_5(counter, channel) ==
    LET seq == get_next_sequence_id(counter)
    IN  [sequence_counter |-> seq.sequence_counter,
         messages |-> << from_binary_message(encode_type("5"), channel, seq.id) >>]

generate_type_24(counter, channel) ==
    [sequence_counter |-> counter,
     messages |-> << from_binary_message(encode_type("24A"), channel, NoneStr),
                     from_binary_message(encode_type("24B"), channel, NoneStr) >>]

generate_type_single(kind, counter, channel) ==
    [sequence_counter |-> counter,
     messages |-> << from_binary_message(encode_type(kind), channel, NoneStr) >>]

\* the generators table of generate_message
generate_message(counter, message_type, channel) ==
    CASE message_type = 1 -> generate_type_single("1", counter, channel)
      [] message_type = 2 -> generate_type_single("2", counter, channel)
      [] message_type = 3 -> generate_type_single("3", counter, channel)
      [] message_type = 4 -> generate_type_single("4", counter, channel)
      [] message_type = 5 -> generate_type_5(counter, channel)
      [] message_type = 18 -> generate_type_single("18", counter, channel)
      [] message_type = 19 -> generate_type_single("19", counter, channel)
      [] message_type = 21 -> generate_type_single("21", counter, channel)
      [] message_type = 24 -> generate_type_24(counter, channel)

\* str(n) of a number >= 0, character by character
RECURSIVE StrCodes(_)
StrCodes(n) ==
    IF n < 10 THEN <<48 + n>> ELSE StrCodes(n \div 10) \o <<48 + (n % 10)>>

\* the characters of a channel or of a sequential message id
CodePoints(text) ==
    CASE text = "" -> <<>>
      [] text = "A" -> <<65>>
      [] text = "B" -> <<66>>
      [] OTHER -> <<48 + (CHOOSE d \in 0..9 : Str(d) = text)>>

\* bit i of the XOR of characters: the parity of how many of them have it
ParityBit(chars, i) ==
    Cardinality({k \in 1..Len(chars) : (chars[k] \div (2 ^ i)) % 2 = 1}) % 2

\* the loop "for char in ...: checksum ^= ord(char)" from a start value, for
\* characters below 256
XorAll(checksum, chars) ==
    LET all == <<checksum>> \o chars
    IN  ParityBit(all, 0) + 2 * ParityBit(all, 1) + 4 * ParityBit(all, 2)
          + 8 * ParityBit(all, 3) + 16 * ParityBit(all, 4) + 32 * ParityBit(all, 5)
          + 64 * ParityBit(all, 6) + 128 * ParityBit(all, 7)

\* a variant of the checksum that takes in the leading '!'
Checksum_with_start(sentence_body) == XorAll(33, sentence_body)

Checksum(sentence_body) == XorAll(0, sentence_body)

\* one digit of the format "02X"
HexDigit(d) == IF d < 10 THEN 48 + d ELSE 55 + d

\* f"{checksum:02X}" of a checksum below 256
Format02X(checksum) == <<HexDigit(checksum \div 16), HexDigit(checksum % 16)>>

\* ",".join(fields)
RECURSIVE JoinComma(_)
JoinComma(fields) ==
    IF Len(fields) = 1 THEN Head(fields)
    ELSE Head(fields) \o <<44>> \o JoinComma(Tail(fields))

\* AIVDMSentence.__str__: "!", the fields "AIVDM", total, number, id,
\* channel, payload and fill bits joined by commas, "*" and the checksum
AIVDMSentence_str(sentence) ==
    LET fields == << <<65, 73, 86, 68, 77>>,
                     StrCodes(sentence.total_sentences),
                     StrCodes(sentence.sentence_number),
                     CodePoints(sentence.sequential_message_id),
                     CodePoints(sentence.channel),
                     sentence.payload,
                     StrCodes(sentence.fill_bits) >>
        sentence_body == JoinComma(fields)
    IN  <<33>> \o sentence_body \o <<42>> \o Format02X(Checksum(sentence_body))

\* "[str(s) for s in sentences]" of every message of a call, in one list
RECURSIVE Returned(_)
Returned(messages) ==
    IF messages = <<>> THEN <<>>
    ELSE [i \in 1..Len(Head(messages)) |-> AIVDMSentence_str(Head(messages)[i])]
             \o Returned(Tail(messages))

Channels == {"A", "B"}

\* the keys of the table of generate_message, without type 24
generators_without_24 == {1, 2, 3, 4, 5, 18, 19, 21}

\* the keys of the table of generate_message
generators == {1, 2, 3, 4, 5, 18, 19, 21, 24}

\* the message types a caller asks for: the keys and some other numbers
RequestedTypes == {0, 1, 2, 3, 4, 5, 6, 18, 19, 21, 24, 27}

\* generate_message of a supported type
GenerateMessage(message_type, channel) ==
    /\ message_type \in generators
    /\ LET r == generate_message(sequence_counter, message_type, channel)
       IN  /\ sequence_counter' = r.sequence_counter
           /\ emitted' = r.messages
           /\ last_ret' = Returned(r.messages)
    /\ last_op' = "generate_message"
    /\ UNCHANGED <<schedVars, ops, pureVars, extVars>>

\* generate_message of a type outside the table raises ValueError
GenerateUnsupported(message_type, channel) ==
    /\ message_type \notin generators
    /\ last_op' = "generate_message_error"
    /\ last_ret' = <<>>
    /\ UNCHANGED <<schedVars, ops, genVars, countVars, pureVars, extVars>>

GenNext ==
    \E message_type \in RequestedTypes, channel \in Channels :
        \/ GenerateMessage(message_type, channel) /\ UNCHANGED countVars
        \/ GenerateUnsupported(message_type, channel)

GenSpec == Init /\ [][GenNext]_vars

-----------------------------------------------------------------------------
(* Two AISMessageGenerator instances side by side, each counting the       *)
(* multi-fragment messages it has emitted.                                 *)

MaxMulti == 11      \* a generator emits at most this many multi-fragment messages

\* The message types the two generators are asked for: a single-fragment
\* one, the multi-fragment one and the one that emits two messages.
CountedTypes == {1, 5, 24}

\* how many of the messages of one call have more than one fragment
MultiFragments(messages) ==
    Cardinality({k \in 1..Len(messages) : Len(messages[k]) > 1})

\* generate_message(message_type, vessel_data) on the first generator
CountedGenerate(message_type) ==
    /\ multi_count < MaxMulti
    /\ GenerateMessage(message_type, "A")
    /\ multi_count' = multi_count + MultiFragments(emitted')
    /\ peer' = peer

\* generate_message(message_type, vessel_data) on the second generator
PeerGenerate(message_type) ==
    /\ peer.multi_count < MaxMulti
    /\ message_type \in MessageTypes
    /\ LET r == generate_message(peer.sequence_counter, message_type, "A")
       IN  /\ peer' = [sequence_counter |-> r.sequence_counter,
                       emitted |-> r.messages,
                       multi_count |-> peer.multi_count + MultiFragments(r.messages)]
           /\ last_ret' = Returned(r.messages)
    /\ last_op' = "peer_generate_message"
    /\ UNCHANGED <<schedVars, ops, genVars, multi_count, pureVars, extVars>>

RotNext ==
    \E message_type \in CountedTypes :
        \/ CountedGenerate(message_type)
        \/ PeerGenerate(message_type)

RotSpec == Init /\ [][RotNext]_vars

-----------------------------------------------------------------------------
(* nmea_lib/ais/encoder.py: de-armoring and the part count; and the        *)
(* armoring functions applied to payloads drawn from a bounded set.        *)

\* "char in AIS_ASCII_6BIT"
InAlphabet(char) == \E i \in 1..Len(AIS_6BIT_ASCII) : AIS_6BIT_ASCII[i] = char

\* AIS_ASCII_6BIT[char] of {char: idx for idx, char in enumerate(AIS_6BIT_ASCII)}:
\* where a character stands twice in the table, the later index stays
AIS_ASCII_6BIT(char) ==
    (CHOOSE i \in 1..Len(AIS_6BIT_ASCII) :
        /\ AIS_6BIT_ASCII[i] = char
        /\ \A j \in (i + 1)..Len(AIS_6BIT_ASCII) : AIS_6BIT_ASCII[j] # char) - 1

\* the 6 bits decode_6bit_to_binary appends for one character
DecodeChar(char) ==
    IF InAlphabet(char) THEN Bits6(AIS_ASCII_6BIT(char)) ELSE Zeros(6)

decode_6bit_to_binary(encoded_data) ==
    LET groups == [k \in 1..Len(encoded_data) |-> DecodeChar(encoded_data[k])]
    IN  [b \in 1..(6 * Len(encoded_data)) |-> groups[((b - 1) \div 6) + 1][((b - 1) % 6) + 1]]

validate_6bit_string(encoded_data) ==
    \A k \in 1..Len(encoded_data) : InAlphabet(encoded_data[k])

\* binary[:-fill_bits] when fill_bits > 0
decode_aivdm_payload(payload, fill_bits) ==
    LET binary == decode_6bit_to_binary(payload)
    IN  IF fill_bits > 0
        THEN SubSeq(binary, 1, Len(binary) - fill_bits)
        ELSE binary

\* a variant of get_part_count that adds a part to the whole quotient
get_part_count_floor(binary_data, max_chars_per_part) ==
    (Len(binary_data) \div (max_chars_per_part * 6)) + 1

get_part_count(binary_data, max_chars_per_part) ==
    IF ~needs_splitting(binary_data, max_chars_per_part) THEN 1
    ELSE LET max_bits_per_part == max_chars_per_part * 6
         IN  (Len(binary_data) + max_bits_per_part - 1) \div max_bits_per_part

MaxBits == 7        \* every payload of up to this many bits is an input

ShortPayloads == UNION {[1..n -> {0, 1}] : n \in 0..MaxBits}

\* Lengths around one and two full fragments of 336 bits.
LongLengths == {335, 336, 337, 341, 672, 673}

\* Bit patterns of the long payloads: all 0, all 1, alternating, mixed.
Patterns == {"zeros", "ones", "alternating", "mixed"}

PatternBit(pattern, i) ==
    CASE pattern = "zeros" -> 0
      [] pattern = "ones" -> 1
      [] pattern = "alternating" -> i % 2
      [] pattern = "mixed" -> ((i \div 3) + (i \div 7) + i) % 2

LongPayloads ==
    {[i \in 1..n |-> PatternBit(pattern, i)] : n \in LongLengths, pattern \in Patterns}

\* the 18-bit payload of test_6bit_encoding
ExamplePayloads == {<<0,0,0,0,0,1, 0,0,0,0,1,0, 0,0,0,0,1,1>>}

Payloads == ShortPayloads \cup LongPayloads \cup ExamplePayloads

BitsInit ==
    /\ Constructed
    /\ arg \in Payloads
    /\ res = <<>>

\* one function applied to the input
Apply(name, value) ==
    /\ last_op = "init"
    /\ last_op' = name
    /\ res' = value
    /\ UNCHANGED <<schedVars, ops, last_ret, genVars, countVars, arg, extVars>>

ApplyFromBinaryMessage ==
    Apply("from_binary_message", from_binary_message(arg, "A", NoneStr))

ApplyEncode ==
    Apply("encode_binary_to_6bit", encode_binary_to_6bit(arg))

ApplyRoundTrip ==
    Apply("decode_6bit_to_binary", decode_6bit_to_binary(encode_binary_to_6bit(arg)))

ApplyGetPartCount ==
    Apply("get_part_count", get_part_count(arg, MaxCharsPerPart))

BitsNext ==
    \/ ApplyFromBinaryMessage
    \/ ApplyEncode
    \/ ApplyRoundTrip
    \/ ApplyGetPartCount

BitsSpec == BitsInit /\ [][BitsNext]_vars

-----------------------------------------------------------------------------
(* nmea_lib/ais/messages.py: AISBinaryEncoder, field by field. A float     *)
(* input is written in 32nds of its unit (a sog of 328 is 10.25 kn): a     *)
(* float holds every such value, and its product with 10 or 600000,        *)
(* exactly. A text is a sequence of code points. The '-' that format()     *)
(* writes in front of a negative number is the element MinusSign.          *)

\* the number of parts in one unit of a float input
Unit == 32

MinusSign == -1

Max(a, b) == IF a >= b THEN a ELSE b

\* the number of binary digits of a value >= 0 (one for 0)
BitLength(value) ==
    IF value = 0 THEN 1 ELSE CHOOSE n \in 1..31 : value \div (2 ^ (n - 1)) = 1

\* the lowest width digits of a value >= 0, most significant first
Binary(value, width) == [i \in 1..width |-> (value \div (2 ^ (width - i))) % 2]

\* format(value, '0{bits}b'): zero-padded to bits characters, the sign
\* included, and longer when the value needs more digits
Format0b(value, bits) ==
    IF value >= 0
    THEN Binary(value, Max(bits, BitLength(value)))
    ELSE <<MinusSign>> \o Binary(-value, Max(bits - 1, BitLength(-value)))

_encode_bits(value, bits) ==
    Format0b(IF value < 0 THEN (2 ^ bits) + value ELSE value, bits)

\* int(round(x)) of x = numerator / Unit: Python rounds a half to the
\* even neighbour
RoundUnits(numerator) ==
    LET q == numerator \div Unit
        r == numerator % Unit
    IN  IF 2 * r < Unit THEN q
        ELSE IF 2 * r > Unit THEN q + 1
        ELSE IF q % 2 = 0 THEN q ELSE q + 1

RECURSIVE Join(_)
\* binary += ... of every field in turn
Join(fields) ==
    IF fields = <<>> THEN <<>> ELSE Head(fields) \o Join(Tail(fields))

\* char.upper() of an ASCII character
Upper(char) == IF 97 <= char /\ char <= 122 THEN char - 32 ELSE char

\* text.ljust(max_chars)[:max_chars]
LjustCut(text, max_chars) ==
    SubSeq(text \o [i \in 1..(max_chars - Len(text)) |-> 32], 1, max_chars)

\* the 6-bit value _encode_string gives one character
SixBit(char) ==
    LET ascii_val == IF char = 32 THEN 32 ELSE Upper(char)
    IN  IF 32 <= ascii_val /\ ascii_val <= 95 THEN ascii_val - 32 ELSE 0

_encode_string(text, max_chars) ==
    LET padded == LjustCut(text, max_chars)
    IN  Join([i \in 1..Len(padded) |-> _encode_bits(SixBit(padded[i]), 6)])

\* lat in 32nds of a degree; lat * 600000 is then a whole number
_encode_latitude(lat) ==
    IF lat = 91 * Unit
    THEN _encode_bits(54600000, 27)
    ELSE LET lat_int == lat * (600000 \div Unit)
         IN  _encode_bits(Max(-324000000, Min(324000000, lat_int)), 27)

_encode_longitude(lon) ==
    IF lon = 181 * Unit
    THEN _encode_bits(108600000, 28)
    ELSE LET lon_int == lon * (600000 \div Unit)
         IN  _encode_bits(Max(-648000000, Min(648000000, lon_int)), 28)

\* a variant of _encode_sog that lets the rounded value reach 1023
_encode_sog_clamp_1023(sog) ==
    IF sog * 10 >= 1023 * Unit
    THEN _encode_bits(1023, 10)
    ELSE _encode_bits(Max(0, Min(1023, RoundUnits(sog * 10))), 10)

\* sog in 32nds of a knot; "sog >= 102.3" compares ten times the speed
\* with 1023
_encode_sog(sog) ==
    IF sog * 10 >= 1023 * Unit
    THEN _encode_bits(1023, 10)
    ELSE _encode_bits(Max(0, Min(1022, RoundUnits(sog * 10))), 10)

\* cog in 32nds of a degree
_encode_cog(cog) ==
    IF cog >= 360 * Unit
    THEN _encode_bits(3600, 12)
    ELSE _encode_bits(Max(0, Min(3599, RoundUnits(cog * 10))), 12)

_encode_heading(heading) ==
    IF heading >= 511
    THEN _encode_bits(511, 9)
    ELSE _encode_bits(Max(0, Min(359, heading)), 9)

\* int(round(4.733 * math.sqrt(magnitude))) of a magnitude in 1..2000: the
\* n with (n - 1/2)^2 <= 4.733^2 * magnitude < (n + 1/2)^2
RoundedRot(magnitude) ==
    CHOOSE n \in 0..255 :
        /\ (2 * n - 1) * (2 * n - 1) * 1000 <= 89605 * magnitude
        /\ 89605 * magnitude < (2 * n + 1) * (2 * n + 1) * 1000

_encode_rot(rot) ==
    IF rot = 128 THEN _encode_bits(128, 8)
    ELSE IF rot = 0 THEN _encode_bits(0, 8)
    ELSE IF rot > 0 THEN _encode_bits(Min(127, RoundedRot(rot)), 8)
    ELSE _encode_bits(Max(-127, -RoundedRot(-rot)), 8)

\* the four dimension fields that types 5, 19, 21 and 24 Part B share
EncodeDimensions(dims) ==
    Join(<< _encode_bits(dims[1], 9), _encode_bits(dims[2], 9),
            _encode_bits(dims[3], 6), _encode_bits(dims[4], 6) >>)

encode_type_1(vessel) ==
    Join(<< _encode_bits(1, 6),
            _encode_bits(0, 2),
            _encode_bits(vessel.mmsi, 30),
            _encode_bits(vessel.nav_status, 4),
            _encode_rot(vessel.rot),
            _encode_sog(vessel.sog),
            _encode_bits(vessel.position_accuracy, 1),
            _encode_longitude(vessel.longitude),
            _encode_latitude(vessel.latitude),
            _encode_cog(vessel.cog),
            _encode_heading(vessel.heading),
            _encode_bits(vessel.timestamp, 6),
            _encode_bits(0, 2),
            _encode_bits(0, 3),
            _encode_bits(vessel.raim, 1),
            _encode_bits(vessel.radio_status, 19) >>)

encode_type_2(vessel) ==
    LET binary == encode_type_1(vessel)
    IN  _encode_bits(2, 6) \o SubSeq(binary, 7, Len(binary))

encode_type_3(vessel) ==
    LET binary == encode_type_1(vessel)
    IN  _encode_bits(3, 6) \o SubSeq(binary, 7, Len(binary))

encode_type_4(base_station) ==
    Join(<< _encode_bits(4, 6),
            _encode_bits(0, 2),
            _encode_bits(base_station.mmsi, 30),
            _encode_bits(base_station.utc_time.year, 14),
            _encode_bits(base_station.utc_time.month, 4),
            _encode_bits(base_station.utc_time.day, 5),
            _encode_bits(base_station.utc_time.hour, 5),
            _encode_bits(base_station.utc_time.minute, 6),
            _encode_bits(base_station.utc_time.second, 6),
            _encode_bits(1, 1),
            _encode_longitude(base_station.longitude),
            _encode_latitude(base_station.latitude),
            _encode_bits(base_station.epfd_type, 4),
            _encode_bits(0, 10),
            _encode_bits(base_station.raim, 1),
            _encode_bits(base_station.radio_status, 19) >>)

\* draught in 32nds of a metre; "static.imo_number or 0" is the field imo_number
encode_type_5(vessel) ==
    LET draught_int == IF vessel.draught * 10 < 255 * Unit
                       THEN RoundUnits(vessel.draught * 10) ELSE 0
    IN  Join(<< _encode_bits(5, 6),
                _encode_bits(0, 2),
                _encode_bits(vessel.mmsi, 30),
                _encode_bits(0, 2),
                _encode_bits(vessel.imo_number, 30),
                _encode_string(vessel.callsign, 7),
                _encode_string(vessel.vessel_name, 20),
                _encode_bits(vessel.ship_type, 8),
                EncodeDimensions(vessel.dimensions),
                _encode_bits(vessel.epfd_type, 4),
                _encode_bits(vessel.eta[1], 4),
                _encode_bits(vessel.eta[2], 5),
                _encode_bits(vessel.eta[3], 5),
                _encode_bits(vessel.eta[4], 6),
                _encode_bits(draught_int, 8),
                _encode_string(vessel.destination, 20),
                _encode_bits(vessel.dte, 1),
                _encode_bits(0, 1) >>)

encode_type_18(vessel) ==
    Join(<< _encode_bits(18, 6),
            _encode_bits(0, 2),
            _encode_bits(vessel.mmsi, 30),
            _encode_bits(0, 8),
            _encode_sog(vessel.sog),
            _encode_bits(vessel.position_accuracy, 1),
            _encode_longitude(vessel.longitude),
            _encode_latitude(vessel.latitude),
            _encode_cog(vessel.cog),
            _encode_heading(vessel.heading),
            _encode_bits(vessel.timestamp, 6),
            _encode_bits(0, 2),
            _encode_bits(1, 1),
            _encode_bits(0, 1),
            _encode_bits(0, 1),
            _encode_bits(0, 1),
            _encode_bits(0, 1),
            _encode_bits(0, 1),
            _encode_bits(vessel.raim, 1),
            _encode_bits(vessel.radio_status, 20) >>)

encode_type_19(vessel) ==
    Join(<< _encode_bits(19, 6),
            _encode_bits(0, 2),
            _encode_bits(vessel.mmsi, 30),
            _encode_bits(0, 8),
            _encode_sog(vessel.sog),
            _encode_bits(vessel.position_accuracy, 1),
            _encode_longitude(vessel.longitude),
            _encode_latitude(vessel.latitude),
            _encode_cog(vessel.cog),
            _encode_heading(vessel.heading),
            _encode_bits(vessel.timestamp, 6),
            _encode_bits(0, 4),
            _encode_string(vessel.vessel_name, 20),
            _encode_bits(vessel.ship_type, 8),
            EncodeDimensions(vessel.dimensions),
            _encode_bits(vessel.epfd_type, 4),
            _encode_bits(vessel.raim, 1),
            _encode_bits(1, 1),
            _encode_bits(0, 1),
            _encode_bits(0, 4) >>)

\* the loop "while len(binary) % 8 != 0: binary += '0'"
RECURSIVE PadTo8(_)
PadTo8(binary) ==
    IF Len(binary) % 8 # 0 THEN PadTo8(Append(binary, 0)) ELSE binary

encode_type_21(aid_nav) ==
    PadTo8(Join(<< _encode_bits(21, 6),
                   _encode_bits(0, 2),
                   _encode_bits(aid_nav.mmsi, 30),
                   _encode_bits(aid_nav.aid_type, 5),
                   _encode_string(aid_nav.name, 20),
                   _encode_bits(aid_nav.position_accuracy, 1),
                   _encode_longitude(aid_nav.longitude),
                   _encode_latitude(aid_nav.latitude),
                   EncodeDimensions(aid_nav.dimensions),
                   _encode_bits(aid_nav.epfd_type, 4),
                   _encode_bits(aid_nav.timestamp, 6),
                   _encode_bits(aid_nav.off_position, 1),
                   _encode_bits(aid_nav.regional, 8),
                   _encode_bits(aid_nav.raim, 1),
                   _encode_bits(aid_nav.virtual_aid, 1),
                   _encode_bits(aid_nav.assigned, 1),
                   _encode_bits(0, 1) >>))

encode_type_24_part_a(vessel) ==
    Join(<< _encode_bits(24, 6),
            _encode_bits(0, 2),
            _encode_bits(vessel.mmsi, 30),
            _encode_bits(0, 2),
            _encode_string(vessel.vessel_name, 20),
            _encode_bits(0, 8) >>)

encode_type_24_part_b(vessel) ==
    Join(<< _encode_bits(24, 6),
            _encode_bits(0, 2),
            _encode_bits(vessel.mmsi, 30),
            _encode_bits(1, 2),
            _encode_bits(vessel.ship_type, 8),
            _encode_string(<<>>, 3),
            _encode_string(<<>>, 1),
            _encode_bits(0, 20),
            _encode_string(vessel.callsign, 7),
            EncodeDimensions(vessel.dimensions),
            _encode_bits(0, 2),
            _encode_bits(0, 6) >>)

Kinds == {"1", "2", "3", "4", "5", "18", "19", "21", "24A", "24B"}

\* the encode function of a kind
encode_kind(kind, input) ==
    CASE kind = "1" -> encode_type_1(input)
      [] kind = "2" -> encode_type_2(input)
      [] kind = "3" -> encode_type_3(input)
      [] kind = "4" -> encode_type_4(input)
      [] kind = "5" -> encode_type_5(input)
      [] kind = "18" -> encode_type_18(input)
      [] kind = "19" -> encode_type_19(input)
      [] kind = "21" -> encode_type_21(input)
      [] kind = "24A" -> encode_type_24_part_a(input)
      [] kind = "24B" -> encode_type_24_part_b(input)

\* AIS_MESSAGE_LENGTHS; its entry for type 24 is given to both parts
AIS_MESSAGE_LENGTHS(kind) ==
    CASE kind \in {"1", "2", "3", "4", "18"} -> 168
      [] kind = "5" -> 424
      [] kind = "19" -> 312
      [] kind = "21" -> 272
      [] kind \in {"24A", "24B"} -> 168

\* One input of every encode function: the fields of VesselState (static,
\* navigation and voyage data), BaseStationData and AidToNavigationData, at
\* the defaults of nmea_lib/types/vessel.py. A text is written in code
\* points: "AB 1" is <<65, 66, 32, 49>>.
DefaultInput ==
    [mmsi |-> 366123456, nav_status |-> 15, rot |-> 128, sog |-> 0,
     position_accuracy |-> 0, longitude |-> 0, latitude |-> 0, cog |-> 0,
     heading |-> 511, timestamp |-> 60, raim |-> 0, radio_status |-> 0,
     imo_number |-> 0, callsign |-> <<>>, vessel_name |-> <<>>,
     ship_type |-> 0, dimensions |-> <<0, 0, 0, 0>>, epfd_type |-> 1,
     eta |-> <<0, 0, 24, 60>>, draught |-> 0, destination |-> <<>>,
     dte |-> 1,
     utc_time |-> [year |-> 2024, month |-> 1, day |-> 1,
                   hour |-> 0, minute |-> 0, second |-> 0],
     aid_type |-> 0, name |-> <<>>, off_position |-> 0, regional |-> 0,
     virtual_aid |-> 0, assigned |-> 0]

\* the texts given to a name, call sign or destination: empty, shorter and
\* longer than the field, with spaces, digits, lower case and characters
\* beyond code 95
Texts ==
    { <<>>,
      <<32>>,
      <<48, 57>>,
      <<65, 66, 32, 49>>,
      <<97, 122, 64, 95>>,
      <<96, 123, 126, 127>>,
      <<83, 72, 73, 80, 32, 49, 50, 51>>,
      [i \in 1..21 |-> 64 + i] }

\* values of every field inside its documented range
InRangeValues ==
    [mmsi |-> {0, 1, 200000000, 999999999, 1073741823},
     nav_status |-> {0, 5, 15},
     rot |-> {-127, -5, 0, 5, 127, 128},
     sog |-> {0, 4, 8, 24, 328, 3264, 3272, 3273, 3274, 3280},
     position_accuracy |-> {0, 1},
     longitude |-> {-5760, -1, 0, 1, 5760, 5792},
     latitude |-> {-2880, -1, 0, 1, 2880, 2912},
     cog |-> {0, 8, 24, 11504, 11518, 11519, 11520},
     heading |-> {0, 1, 359, 511},
     timestamp |-> {0, 59, 60, 63},
     raim |-> {0, 1},
     radio_status |-> {0, 1, 524287},
     imo_number |-> {0, 9074729, 1073741823},
     callsign |-> {t \in Texts : Len(t) <= 7},
     vessel_name |-> {t \in Texts : Len(t) <= 20},
     ship_type |-> {0, 70, 99},
     dimensions |-> {<<0, 0, 0, 0>>, <<100, 20, 5, 10>>, <<511, 511, 63, 63>>},
     epfd_type |-> {0, 1, 15},
     eta |-> {<<0, 0, 24, 60>>, <<12, 31, 23, 59>>, <<1, 1, 0, 0>>},
     draught |-> {0, 4, 8, 24, 815, 816, 3200},
     destination |-> {t \in Texts : Len(t) <= 20},
     dte |-> {0, 1},
     utc_time |-> {[year |-> 1, month |-> 1, day |-> 1,
                    hour |-> 0, minute |-> 0, second |-> 0],
                   [year |-> 9999, month |-> 12, day |-> 31,
                    hour |-> 23, minute |-> 59, second |-> 59]},
     aid_type |-> {0, 31},
     name |-> {t \in Texts : Len(t) <= 20},
     off_position |-> {0, 1},
     regional |-> {0, 255},
     virtual_aid |-> {0, 1},
     assigned |-> {0, 1}]

\* values of a numeric field outside its documented range
OutOfRangeValues ==
    [mmsi |-> {1073741824},
     rot |-> {-2000, -726, 726, 2000},
     sog |-> {-32, 32000},
     longitude |-> {-35200, -16000, -7168, -5792, 5824, 7168, 35200},
     latitude |-> {-32000, -8000, -3584, -2912, 2944, 3584, 9600, 32000},
     cog |-> {-32, 12000, 32000},
     heading |-> {-1, 360, 510, 512},
     timestamp |-> {64},
     radio_status |-> {524288, 1048576},
     dimensions |-> {<<512, 0, 0, 0>>, <<0, 0, 0, 64>>},
     draught |-> {-8, -32, -960},
     callsign |-> {t \in Texts : Len(t) > 7},
     vessel_name |-> {t \in Texts : Len(t) > 20}]

\* the default input with one field changed
Variations(values) ==
    UNION {{[DefaultInput EXCEPT ![f] = x] : x \in values[f]} : f \in DOMAIN values}

InRangeInputs == Variations(InRangeValues)

Inputs == InRangeInputs \cup Variations(OutOfRangeValues)

EncInit ==
    /\ Constructed
    /\ arg \in Inputs
    /\ res = <<>>

\* one encode function applied to the input
EncodeType(kind) == Apply(kind, encode_kind(kind, arg))

EncodeSog == Apply("_encode_sog", _encode_sog(arg.sog))

EncodeCog == Apply("_encode_cog", _encode_cog(arg.cog))

EncodeHeading == Apply("_encode_heading", _encode_heading(arg.heading))

\* the name as it is encoded in a field of 20 or of 7 characters
TextWidths == {7, 20}

EncodeString(max_chars) ==
    Apply("_encode_string", _encode_string(arg.vessel_name, max_chars))

EncNext ==
    \/ \E kind \in Kinds : EncodeType(kind)
    \/ EncodeSog
    \/ EncodeCog
    \/ EncodeHeading
    \/ \E max_chars \in TextWidths : EncodeString(max_chars)

EncSpec == EncInit /\ [][EncNext]_vars

-----------------------------------------------------------------------------
(***************************************************************************)
(* The NMEA sentence framework (nmea_lib/base, nmea_lib/validator,         *)
(* nmea_lib/parser).  A string is the sequence of its code points.         *)
(***************************************************************************)

\* TalkerId: the values of the enumeration
TalkerId == {<<71, 80>>, <<71, 76>>, <<71, 65>>, <<71, 78>>, <<66, 68>>, <<81, 90>>, <<73, 73>>, <<73, 78>>, <<69, 67>>}

\* TalkerId.GP
GP == <<71, 80>>

\* SentenceId: the values of the enumeration
SentenceId == {<<71, 71, 65>>, <<82, 77, 67>>, <<71, 83, 65>>, <<71, 83, 86>>, <<86, 84, 71>>, <<71, 76, 76>>, <<90, 68, 65>>, <<72, 68, 71>>}

\* SentenceId.GGA
GGA == <<71, 71, 65>>

\* the characters str.strip() removes
Whitespace == {9, 10, 11, 12, 13, 28, 29, 30, 31, 32}

\* sentence[a - 1 : b] of Python: the characters a..b, none when a > b
Slice(sentence, a, b) == IF a > b THEN <<>> ELSE SubSeq(sentence, a, b)

\* str.strip()
Strip(sentence) ==
    LET kept == {i \in 1..Len(sentence) : sentence[i] \notin Whitespace}
    IN  IF kept = {} THEN <<>>
        ELSE Slice(sentence, CHOOSE i \in kept : \A j \in kept : i <= j, CHOOSE i \in kept : \A j \in kept : j <= i)

\* str.rstrip('\r\n')
RstripCRLF(text) ==
    LET kept == {i \in 1..Len(text) : text[i] \notin {13, 10}}
    IN  IF kept = {} THEN <<>>
        ELSE Slice(text, 1, CHOOSE i \in kept : \A j \in kept : j <= i)

\* str.upper() of an ASCII string
UpperStr(text) == [i \in 1..Len(text) |-> Upper(text[i])]

\* the positions of a character in a string, and str.find + 1 (0: absent)
Positions(text, char) == {i \in 1..Len(text) : text[i] = char}

FindChar(text, char) ==
    IF Positions(text, char) = {} THEN 0
    ELSE CHOOSE i \in Positions(text, char) : \A j \in Positions(text, char) : i <= j

\* str.split(char): the pieces between the occurrences of the character
Split(text, char) ==
    LET cuts == Positions(text, char)
        Cut(k) == IF k = 0 THEN 0
                  ELSE IF k > Cardinality(cuts) THEN Len(text) + 1
                  ELSE CHOOSE p \in cuts : Cardinality({q \in cuts : q < p}) = k - 1
    IN  [k \in 1..(Cardinality(cuts) + 1) |-> Slice(text, Cut(k - 1) + 1, Cut(k) - 1)]

\* SentenceValidator.calculate_checksum: the XOR of the code points as two
\* upper-case hexadecimal digits
calculate_checksum(sentence_body) == Format02X(Checksum(sentence_body))

IsLetter(char) == 65 <= char /\ char <= 90

IsHex(char) == (48 <= char /\ char <= 57) \/ (65 <= char /\ char <= 70)

\* what (?:\r\n|\r|\n)?$ matches: an optional line end, and "$" also
\* matches before one last line feed
LineEnds == {<<>>, <<13, 10>>, <<13>>, <<10>>, <<13, 10, 10>>, <<10, 10>>}

\* NMEA_PATTERN.match: "$", two and three letters, ",", no "*", "*", two
\* hexadecimal digits, a line end
NMEA_PATTERN(text) ==
    LET star == FindChar(text, 42)
    IN  /\ Len(text) >= 10
        /\ text[1] = 36
        /\ \A i \in 2..6 : IsLetter(text[i])
        /\ text[7] = 44
        /\ star >= 8
        /\ Len(text) >= star + 2
        /\ IsHex(text[star + 1])
        /\ IsHex(text[star + 2])
        /\ Slice(text, star + 3, Len(text)) \in LineEnds

\* SentenceValidator.is_valid_format
is_valid_format(sentence) ==
    /\ sentence # <<>>
    /\ sentence[1] = 36
    /\ Positions(sentence, 42) # {}
    /\ Len(sentence) <= 82
    /\ NMEA_PATTERN(UpperStr(sentence))

\* SentenceValidator.validate_checksum: split at the first "*"
validate_checksum(sentence) ==
    /\ Positions(sentence, 42) # {}
    /\ LET star == FindChar(sentence, 42)
           sentence_body == Slice(sentence, 2, star - 1)
           checksum_str == RstripCRLF(Slice(sentence, star + 1, Len(sentence)))
       IN  /\ Len(checksum_str) = 2
           /\ UpperStr(checksum_str) = UpperStr(calculate_checksum(sentence_body))

\* SentenceValidator.is_valid
is_valid(sentence) == is_valid_format(sentence) /\ validate_checksum(sentence)

\* SentenceValidator.extract_talker_id and extract_sentence_id; None is <<>>
extract_talker_id(sentence) ==
    IF Len(sentence) < 3 \/ sentence[1] # 36 THEN <<>> ELSE Slice(sentence, 2, 3)

extract_sentence_id(sentence) ==
    IF Len(sentence) < 6 \/ sentence[1] # 36 THEN <<>> ELSE Slice(sentence, 4, 6)

\* SentenceValidator.extract_fields
extract_fields(sentence) ==
    IF Positions(sentence, 42) = {} THEN <<>>
    ELSE LET sentence_part == Split(sentence, 42)[1]
             comma_index == FindChar(sentence_part, 44)
         IN  IF comma_index = 0 THEN <<>>
             ELSE Split(Slice(sentence_part, comma_index + 1, Len(sentence_part)), 44)

\* TalkerId.parse: an unknown talker is GP
TalkerId_parse(nmea_sentence) ==
    IF Slice(nmea_sentence, 2, 3) \in TalkerId THEN Slice(nmea_sentence, 2, 3) ELSE GP

\* what a failed parse leaves: the ValueError and no parsed data
Failure == [error |-> "ValueError", talker_id |-> <<>>, sentence_id |-> <<>>, fields |-> <<>>, checksum |-> <<>>]

\* SentenceParser.__init__ and _parse
SentenceParser(sentence) ==
    LET raw_sentence == Strip(sentence)
    IN  IF ~is_valid(raw_sentence) THEN Failure
        ELSE IF extract_talker_id(raw_sentence) = <<>> \/ extract_sentence_id(raw_sentence) = <<>> THEN Failure
        ELSE IF Slice(raw_sentence, 4, 6) \notin SentenceId THEN Failure
        ELSE [error |-> "",
              talker_id |-> TalkerId_parse(raw_sentence),
              sentence_id |-> Slice(raw_sentence, 4, 6),
              fields |-> extract_fields(raw_sentence),
              checksum |-> RstripCRLF(Split(raw_sentence, 42)[2])]

\* SentenceBuilder.build over the fields that add_field collected
SentenceBuilder_build(talker_id, sentence_id, fields) ==
    LET sentence_body == talker_id \o sentence_id \o <<44>> \o (IF fields = <<>> THEN <<>> ELSE JoinComma(fields))
    IN  <<36>> \o sentence_body \o <<42>> \o calculate_checksum(sentence_body) \o <<13, 10>>

\* the fields of the GGA sentence of test_create_gga_sentence, and of a GGA
\* sentence with every value set, as GGASentence.to_sentence adds them
GGAFieldsOfTest == <<<<49, 50, 48, 48, 52, 52>>, <<54, 48, 49, 49, 46, 53, 53, 50, 48>>, <<78>>, <<48, 50, 53, 48, 49, 46, 57, 52, 49, 48>>, <<69>>, <<48>>, <<56>>, <<50, 46, 48>>, <<>>, <<>>, <<>>, <<>>, <<>>, <<>>>>

GGAFieldsFull == <<<<49, 50, 48, 48, 52, 52, 46, 49, 50, 51>>, <<54, 48, 49, 49, 46, 53, 53, 50, 48>>, <<78>>, <<48, 50, 53, 48, 49, 46, 57, 52, 49, 48>>, <<69>>, <<50>>, <<49, 50>>, <<49, 50, 46, 53>>, <<49, 50, 51, 52, 53, 46, 54>>, <<77>>, <<49, 48, 53, 46, 51>>, <<77>>, <<49, 50, 46, 53>>, <<48, 49, 50, 51>>>>

MaxFields == 2      \* every list of up to this many short fields is an input
LongLen == 71       \* the long fields have about this many characters

\* the short fields: "", "A", "a1" and "*"
ShortFields == {<<>>, <<65>>, <<97, 49>>, <<42>>}

\* one field of LongLen - 2 .. LongLen + 2 letters: sentences of 81 .. 85
\* characters when LongLen is 71
LongFieldLists == {<<[i \in 1..n |-> 65]>> : n \in (LongLen - 2)..(LongLen + 2)}

FieldLists == UNION {[1..n -> ShortFields] : n \in 0..MaxFields} \cup LongFieldLists \cup {GGAFieldsOfTest, GGAFieldsFull}

\* every talker of a GGA sentence and every sentence of the talker GP
Headers == {<<t, GGA>> : t \in TalkerId} \cup {<<GP, s>> : s \in SentenceId}

SentenceInputs == {[talker_id |-> h[1], sentence_id |-> h[2], fields |-> f] : h \in Headers, f \in FieldLists}

\* the strings handed to the parser, each derived from the built sentence
Derivations == {"built", "bang", "no prefix", "no star", "other checksum", "lower checksum", "no line end", "unknown talker", "unknown sentence"}

LowerHex(char) == IF 65 <= char /\ char <= 70 THEN char + 32 ELSE char

Derived(how, input, built) ==
    LET n == Len(built)
    IN  CASE how = "built" -> built
          [] how = "bang" -> <<33>> \o Tail(built)
          [] how = "no prefix" -> Tail(built)
          [] how = "no star" -> [i \in 1..n |-> IF built[i] = 42 THEN 44 ELSE built[i]]
          [] how = "other checksum" -> [built EXCEPT ![n - 2] = IF @ = 48 THEN 49 ELSE 48]
          [] how = "lower checksum" -> [built EXCEPT ![n - 2] = LowerHex(@), ![n - 3] = LowerHex(@)]
          [] how = "no line end" -> Slice(built, 1, n - 2)
          [] how = "unknown talker" -> SentenceBuilder_build(<<88, 88>>, input.sentence_id, input.fields)
          [] how = "unknown sentence" -> SentenceBuilder_build(input.talker_id, <<86, 68, 77>>, input.fields)

NmeaInit ==
    /\ Constructed
    /\ arg \in SentenceInputs
    /\ res = <<>>

\* SentenceBuilder(talker_id, sentence_id), add_field of every field, build()
Build == Apply("build", SentenceBuilder_build(arg.talker_id, arg.sentence_id, arg.fields))

\* SentenceParser(sentence) of a string derived from the built sentence;
\* last_ret keeps the string
Parse(how) ==
    /\ last_op = "build"
    /\ last_op' = "parse"
    /\ last_ret' = Derived(how, arg, res)
    /\ res' = SentenceParser(last_ret')
    /\ UNCHANGED <<schedVars, ops, genVars, countVars, arg, extVars>>

NmeaNext ==
    \/ Build
    \/ \E how \in Derivations : Parse(how)

NmeaSpec == NmeaInit /\ [][NmeaNext]_vars

-----------------------------------------------------------------------------
(***************************************************************************)
(* The serial output (simulator/outputs/serial).  The port object is       *)
(* "None", "open" or "closed" (an object whose is_open is False); what     *)
(* serial.Serial(...) and serial_port.write(...) do is the caller's input. *)
(***************************************************************************)

MaxSent == 10       \* a run sends at most this many sentences successfully

\* what serial.Serial(...) does: it returns an open port or raises
OpenOutcomes == {"opened", "SerialException"}

\* what serial_port.write(...) does
WriteOutcomes == {"written", "SerialTimeoutException", "SerialException", "Exception"}

\* SerialOutput.start: the object after the call and what the call did
SerialOutput_start(self, outcome) ==
    IF self.is_running THEN [self |-> self, ret |-> "None"]
    ELSE IF outcome = "opened"
         THEN [self |-> [self EXCEPT !.serial_port = "open", !.is_running = TRUE], ret |-> "None"]
         ELSE [self |-> [self EXCEPT !.is_running = FALSE, !.serial_port = "None"], ret |-> "RuntimeError"]

\* SerialOutput.stop
SerialOutput_stop(self) ==
    IF ~self.is_running THEN self
    ELSE [self EXCEPT !.is_running = FALSE,
                      !.serial_port = IF @ = "open" THEN "None" ELSE @]

\* send_sentence counting the sentence before it is written
send_sentence_counting_first(self, outcome) ==
    IF ~self.is_running \/ self.serial_port = "None" \/ self.serial_port # "open"
    THEN [self |-> self, ret |-> "False"]
    ELSE IF outcome = "written"
         THEN [self |-> [self EXCEPT !.sentences_sent = @ + 1], ret |-> "True"]
         ELSE [self |-> [self EXCEPT !.sentences_sent = @ + 1], ret |-> "False"]

\* SerialOutput.send_sentence
send_sentence(self, outcome) ==
    IF ~self.is_running \/ self.serial_port = "None" \/ self.serial_port # "open"
    THEN [self |-> self, ret |-> "False"]
    ELSE IF outcome = "written"
         THEN [self |-> [self EXCEPT !.sentences_sent = @ + 1], ret |-> "True"]
         ELSE [self |-> self, ret |-> "False"]

Start(outcome) ==
    /\ output' = SerialOutput_start(output, outcome).self
    /\ last_op' = "start"
    /\ last_ret' = SerialOutput_start(output, outcome).ret
    /\ UNCHANGED <<schedVars, ops, genVars, countVars, pureVars, true_returns, prodVars, loopVars, raceVars>>

Stop ==
    /\ output' = SerialOutput_stop(output)
    /\ last_op' = "stop"
    /\ last_ret' = "None"
    /\ UNCHANGED <<schedVars, ops, genVars, countVars, pureVars, true_returns, prodVars, loopVars, raceVars>>

SendSentence(outcome) ==
    /\ output.sentences_sent < MaxSent
    /\ output' = send_sentence(output, outcome).self
    /\ last_op' = "send_sentence"
    /\ last_ret' = send_sentence(output, outcome).ret
    /\ true_returns' = IF last_ret' = "True" THEN true_returns + 1 ELSE true_returns
    /\ UNCHANGED <<schedVars, ops, genVars, countVars, pureVars, prodVars, loopVars, raceVars>>

\* the port stops being open without a call of the output (the device is
\* gone): its is_open turns False
PortCloses ==
    /\ output.serial_port = "open"
    /\ output' = [output EXCEPT !.serial_port = "closed"]
    /\ last_op' = "port closes"
    /\ last_ret' = "None"
    /\ UNCHANGED <<schedVars, ops, genVars, countVars, pureVars, true_returns, prodVars, loopVars, raceVars>>

SerialNext ==
    \/ \E outcome \in OpenOutcomes : Start(outcome)
    \/ Stop
    \/ \E outcome \in WriteOutcomes : SendSentence(outcome)
    \/ PortCloses

SerialSpec == Init /\ [][SerialNext]_vars

-----------------------------------------------------------------------------
(***************************************************************************)
(* Threads that call generate_type_5 on one shared AISMessageGenerator.    *)
(* _get_next_sequence_id reads the counter, stores the incremented value,  *)
(* reads it again for the comparison and once more for str(); another      *)
(* thread can run between any two of these steps.  With a lock around the  *)
(* call a thread enters only when no other thread is in the call.          *)
(***************************************************************************)

\* generate_type_5 is called: the thread takes the lock if there is one
Enter(p) ==
    /\ producers[p].pc = "idle"
    /\ lock \in {"absent", "free"}
    /\ lock' = IF lock = "free" THEN Str(p) ELSE lock
    /\ producers' = [producers EXCEPT ![p].pc = "load"]
    /\ last_op' = "generate_type_5"
    /\ UNCHANGED <<schedVars, ops, last_ret, genVars, countVars, pureVars, serialVars, recent, loopVars, raceVars>>

\* "self.sequence_counter + 1": the counter is read
Load(p) ==
    /\ producers[p].pc = "load"
    /\ producers' = [producers EXCEPT ![p].pc = "store", ![p].value = sequence_counter]
    /\ last_op' = "generate_type_5"
    /\ UNCHANGED <<schedVars, ops, last_ret, genVars, countVars, pureVars, serialVars, lock, recent, loopVars, raceVars>>

\* "self.sequence_counter = (... + 1) % 10": the value computed from the
\* counter that was read is stored
Store(p) ==
    /\ producers[p].pc = "store"
    /\ sequence_counter' = get_next_sequence_id(producers[p].value).sequence_counter
    /\ producers' = [producers EXCEPT ![p].pc = "test", ![p].value = 0]
    /\ last_op' = "generate_type_5"
    /\ UNCHANGED <<schedVars, ops, last_ret, emitted, countVars, pureVars, serialVars, lock, recent, loopVars, raceVars>>

\* "if self.sequence_counter > 0 else ''": the counter is read and compared
Test(p) ==
    /\ producers[p].pc = "test"
    /\ producers' = [producers EXCEPT ![p].pc = IF sequence_counter > 0 THEN "str" ELSE "emit",
                                      ![p].seq_id = ""]
    /\ last_op' = "generate_type_5"
    /\ UNCHANGED <<schedVars, ops, last_ret, genVars, countVars, pureVars, serialVars, lock, recent, loopVars, raceVars>>

\* "str(self.sequence_counter)": the counter is read once more
StrCounter(p) ==
    /\ producers[p].pc = "str"
    /\ producers' = [producers EXCEPT ![p].pc = "emit", ![p].seq_id = Str(sequence_counter)]
    /\ last_op' = "generate_type_5"
    /\ UNCHANGED <<schedVars, ops, last_ret, genVars, countVars, pureVars, serialVars, lock, recent, loopVars, raceVars>>

\* the last two entries of a list
LastTwo(list) == IF Len(list) <= 2 THEN list ELSE SubSeq(list, Len(list) - 1, Len(list))

\* generate_type_5 builds the sentences with the id it got, on its default
\* channel, and returns them; the thread releases the lock if it holds it
Emit(p) ==
    /\ producers[p].pc = "emit"
    /\ emitted' = << from_binary_message(encode_type("5"), "A", producers[p].seq_id) >>
    /\ last_ret' = Returned(emitted')
    /\ recent' = LastTwo(Append(recent, [producer |-> p, seq_id |-> producers[p].seq_id]))
    /\ producers' = [producers EXCEPT ![p] = Idle]
    /\ lock' = IF lock = Str(p) THEN "free" ELSE lock
    /\ last_op' = "generate_type_5"
    /\ UNCHANGED <<schedVars, ops, sequence_counter, countVars, pureVars, serialVars, loopVars, raceVars>>

\* the threads use no lock, as in the code, or one lock around every call
ProdInit ==
    /\ Objects
    /\ lock \in {"absent", "free"}
    /\ arg = <<>>
    /\ res = <<>>

ProdNext ==
    \E p \in Producers :
        \/ Enter(p)
        \/ Load(p)
        \/ Store(p)
        \/ Test(p)
        \/ StrCounter(p)
        \/ Emit(p)

ProdSpec == ProdInit /\ [][ProdNext]_vars

-----------------------------------------------------------------------------
(***************************************************************************)
(* The engine's AIS loop as the scheduler's driver (simulator/core/        *)
(* enhanced_engine._ais_loop).  One iteration reads the time, asks for the *)
(* due pairs, generates and marks each at that time, and cleans up.  The   *)
(* scheduler only compares times and adds intervals to them, so after an   *)
(* iteration every time is written relative to the new current time: the   *)
(* clock stays at Base, and a time more than Base in the past is held at 0.*)
(* The send counts, which no decision of the scheduler reads, are held at  *)
(* MaxCount.                                                               *)
(***************************************************************************)

\* the clock of the loop; a time of one hour before it is still above 0
Base == inactive_threshold + 1

\* by how many seconds the time has advanced when the loop wakes up
Advances == {60, 4000}

\* the targets the caller registers while the loop runs
LoopTargets == {1}

MaxCount == 2       \* a send count above this is held at this value

\* a time, seconds later written relative to the new current time
Shift(time, seconds) == IF time = None THEN None ELSE Max(0, time - seconds)

Rebase(schedules, seconds) ==
    [i \in 1..Len(schedules) |->
        [schedules[i] EXCEPT !.messages =
            [j \in 1..Len(@) |->
                [@[j] EXCEPT !.next_transmission = Shift(@, seconds),
                             !.last_sent = Shift(@, seconds),
                             !.send_count = Min(@, MaxCount)]]]]

\* the for loop of _ais_loop that generates and marks only the first pair
MarkAll_first_only(schedules, due_messages, current_time) ==
    IF due_messages = <<>> THEN schedules
    ELSE mark_message_sent(schedules, due_messages[1][1], due_messages[1][2], current_time)

\* the for loop of _ais_loop: _generate_ais_message of every due pair, each
\* ending in mark_message_sent(vessel_mmsi, message_type, current_time)
RECURSIVE MarkAll(_, _, _)
MarkAll(schedules, due_messages, current_time) ==
    IF due_messages = <<>> THEN schedules
    ELSE CHOOSE r \in {MarkAll(marked, Tail(due_messages), current_time) :
                          marked \in {mark_message_sent(schedules, due_messages[1][1],
                                                        due_messages[1][2], current_time)}} : TRUE

\* one iteration of _ais_loop after the time advanced; the list of due
\* pairs and the schedules after the iteration are computed once each
AisLoop(seconds) ==
    \E current_time \in {now + seconds} :
    \E due_messages \in {get_due_messages(vessel_schedules, current_time)} :
    \E marked \in {MarkAll(vessel_schedules, due_messages, current_time)} :
    \E cleaned \in {cleanup_old_schedules(marked, last_cleanup, current_time)} :
        /\ vessel_schedules' = Rebase(cleaned.vessel_schedules, seconds)
        /\ last_cleanup' = Shift(cleaned.last_cleanup, seconds)
        /\ not_before' = [p \in MMSIs \X MessageTypes |->
                             IF ~Scheduled(cleaned.vessel_schedules, p[1], p[2]) THEN None
                             ELSE IF \E i \in 1..Len(due_messages) : due_messages[i] = p
                             THEN Shift(current_time + Msg(vessel_schedules, p[1], p[2]).interval, seconds)
                             ELSE Shift(not_before[p], seconds)]
        /\ last_op' = "_ais_loop"
        /\ last_ret' = due_messages
        /\ UNCHANGED <<now, ops, genVars, countVars, pureVars, serialVars, prodVars, raceVars>>

LoopInit ==
    /\ ObjectsAt(Base)
    /\ lock = "absent"
    /\ arg = <<>>
    /\ res = <<>>

\* the caller registers and removes targets and the simulation loop updates
\* the intervals while the AIS loop runs
LoopNext ==
    \/ \E seconds \in Advances : AisLoop(seconds)
    \/ \E mmsi \in LoopTargets, vessel_class \in {CLASS_A, CLASS_B} : AddVessel(mmsi, vessel_class)
    \/ \E mmsi \in LoopTargets : AddBaseStation(mmsi)
    \/ \E mmsi \in LoopTargets : AddAidToNavigation(mmsi)
    \/ \E mmsi \in LoopTargets : RemoveVessel(mmsi)
    \/ \E mmsi \in LoopTargets, speed_knots \in Speeds : UpdateVesselIntervals(mmsi, speed_knots)

\* "while self.running:" with a sleep between two iterations: the loop
\* thread takes its next iteration again and again
LoopSpec == LoopInit /\ [][LoopNext]_vars /\ WF_vars(\E seconds \in Advances : AisLoop(seconds))

-----------------------------------------------------------------------------
(* The running engine: start() creates the simulation thread and the AIS   *)
(* thread, which call the one scheduler while the caller's thread adds and *)
(* removes targets.  No call takes a lock, so a thread may be suspended    *)
(* inside a call: update_vessel_intervals between its membership test and  *)
(* its lookup, get_due_messages between two steps of its iteration over    *)
(* the dict.  The interpreter decides where it switches threads; every     *)
(* place a supported interpreter can switch at is a place the steps below  *)
(* can interleave at.  Each operation of the dict itself is one step.      *)

RaceSpeeds == {2, 24}

\* the simulation thread enters update_vessel_intervals:
\* "if vessel_mmsi not in self.vessel_schedules: return"
UviTest(vessel_mmsi, speed_knots) ==
    /\ threads.sim.pc = "idle"
    /\ threads' = [threads EXCEPT !.sim =
          [pc |-> IF SchedIndex(vessel_schedules, vessel_mmsi) = 0 THEN "idle" ELSE "tested",
           vessel_mmsi |-> vessel_mmsi, speed_knots |-> speed_knots]]
    /\ last_op' = "update_vessel_intervals"
    /\ last_ret' = <<>>
    /\ UNCHANGED <<schedVars, ops, genVars, countVars, pureVars, serialVars, prodVars, loopVars>>

\* "schedule = self.vessel_schedules[vessel_mmsi]" and the assignments to
\* the schedule it found; the subscript raises KeyError when the key has
\* gone
UviLookup ==
    /\ threads.sim.pc = "tested"
    /\ IF SchedIndex(vessel_schedules, threads.sim.vessel_mmsi) = 0
       THEN /\ threads' = [threads EXCEPT !.sim.pc = "KeyError"]
            /\ UNCHANGED vessel_schedules
       ELSE /\ threads' = [threads EXCEPT !.sim.pc = "idle"]
            /\ vessel_schedules' = update_vessel_intervals(vessel_schedules,
                                       threads.sim.vessel_mmsi, threads.sim.speed_knots)
    /\ last_op' = "update_vessel_intervals"
    /\ last_ret' = <<>>
    /\ UNCHANGED <<now, last_cleanup, ops, genVars, countVars, pureVars, serialVars, prodVars, loopVars>>

\* the AIS thread enters get_due_messages: "due_messages = []" and the
\* iterator of self.vessel_schedules.values(), which keeps the size the
\* dict has now (di_used), the entries it still expects (len) and its
\* position among the entries (di_pos)
GdmIter ==
    /\ threads.ais.pc = "idle"
    /\ threads' = [threads EXCEPT !.ais =
          [pc |-> "iterating", di_used |-> Len(vessel_schedules), di_pos |-> 1,
           len |-> Len(vessel_schedules), due_messages |-> <<>>]]
    /\ last_op' = "get_due_messages"
    /\ last_ret' = <<>>
    /\ UNCHANGED <<schedVars, ops, genVars, countVars, pureVars, serialVars, prodVars, loopVars>>

\* one step of "for schedule in self.vessel_schedules.values()": the
\* iterator raises RuntimeError when the dict's size is not the one it
\* kept ("dictionary changed size during iteration"), ends the loop behind
\* the last entry ("return due_messages"), raises RuntimeError when it
\* finds an entry it does not expect ("dictionary keys changed during
\* iteration"), and otherwise gives the next schedule, whose due pairs are
\* appended
GdmStep ==
    /\ threads.ais.pc = "iterating"
    /\ IF Len(vessel_schedules) # threads.ais.di_used
       THEN /\ threads' = [threads EXCEPT !.ais.pc = "RuntimeError"]
            /\ last_ret' = <<>>
       ELSE IF threads.ais.di_pos > Len(vessel_schedules)
       THEN /\ threads' = [threads EXCEPT !.ais.pc = "idle"]
            /\ last_ret' = threads.ais.due_messages
       ELSE IF threads.ais.len = 0
       THEN /\ threads' = [threads EXCEPT !.ais.pc = "RuntimeError"]
            /\ last_ret' = <<>>
       ELSE /\ threads' = [threads EXCEPT
                  !.ais.di_pos = @ + 1,
                  !.ais.len = @ - 1,
                  !.ais.due_messages = @ \o
                      Pairs(VesselSchedule_get_due_messages(
                                vessel_schedules[threads.ais.di_pos], now))]
            /\ last_ret' = <<>>
    /\ last_op' = "get_due_messages"
    /\ UNCHANGED <<schedVars, ops, genVars, countVars, pureVars, serialVars, prodVars, loopVars>>

\* remove_vessel called by the caller's thread.  A dict keeps the place of
\* a deleted entry empty, and an iterator's position counts the places;
\* vessel_schedules holds the live entries only, so the position of an
\* iterator behind the deleted entry moves with them.  (An insertion
\* rebuilds the places only when the 5 a new dict has are used up, which
\* MaxOps insertions do not reach.)
RemoveVesselUnderThreads(mmsi) ==
    /\ Call("remove_vessel", <<>>)
    /\ vessel_schedules' = remove_vessel(vessel_schedules, mmsi)
    /\ threads' = IF /\ SchedIndex(vessel_schedules, mmsi) # 0
                     /\ SchedIndex(vessel_schedules, mmsi) < threads.ais.di_pos
                  THEN [threads EXCEPT !.ais.di_pos = @ - 1]
                  ELSE threads
    /\ UNCHANGED <<now, last_cleanup, genVars, countVars, pureVars, serialVars, prodVars, loopVars>>

\* "except Exception as e:" of the thread's loop: the error is logged and
\* the loop goes on
Caught(thread) ==
    /\ threads[thread].pc \in {"KeyError", "RuntimeError"}
    /\ threads' = [threads EXCEPT ![thread].pc = "idle"]
    /\ last_op' = "except"
    /\ last_ret' = <<>>
    /\ UNCHANGED <<schedVars, ops, genVars, countVars, pureVars, serialVars, prodVars, loopVars>>

RaceNext ==
    \/ \E mmsi \in MMSIs, vessel_class \in {CLASS_A, CLASS_B} : AddVessel(mmsi, vessel_class)
    \/ \E mmsi \in MMSIs : RemoveVesselUnderThreads(mmsi)
    \/ \E vessel_mmsi \in MMSIs, speed_knots \in RaceSpeeds : UviTest(vessel_mmsi, speed_knots)
    \/ UviLookup
    \/ GdmIter
    \/ GdmStep
    \/ \E thread \in {"sim", "ais"} : Caught(thread)

RaceSpec == Init /\ [][RaceNext]_vars

-----------------------------------------------------------------------------
(* Helpers of the properties *)

InSeq(x, seq) == \E i \in 1..Len(seq) : seq[i] = x

\* every registered (target, message-type) pair
AllPairs(schedules) ==
    {p \in MMSIs \X MessageTypes : Scheduled(schedules, p[1], p[2])}

\* every registered pair with its next-due time, as <<mmsi, type, time>>
NextDue(schedules) ==
    UNION {{<<schedules[i].vessel_mmsi, schedules[i].messages[j].message_type,
              schedules[i].messages[j].next_transmission>> :
               j \in 1..Len(schedules[i].messages)} : i \in 1..Len(schedules)}

\* the pairs get_due_messages returns at time t
DueSet(schedules, t) ==
    LET due == get_due_messages(schedules, t)
    IN  {due[i] : i \in 1..Len(due)}

\* the times a due query is asked at: the clock's time, every pair's
\* next-due time and the second before it
QueryTimes(nextDue) ==
    {now} \cup UNION {{e[3] - 1, e[3]} : e \in nextDue}

RECURSIVE FnSum(_)
FnSum(f) ==
    IF DOMAIN f = {} THEN 0
    ELSE LET k == CHOOSE k \in DOMAIN f : TRUE
         IN  f[k] + FnSum([x \in DOMAIN f \ {k} |-> f[x]])

SetMax(S) == CHOOSE x \in S : \A y \in S : y <= x
SetMin(S) == CHOOSE x \in S : \A y \in S : x <= y

TypesOf(schedules, mmsi) == {t \in MessageTypes : Scheduled(schedules, mmsi, t)}

-----------------------------------------------------------------------------
\* C1: get_due_messages(t) holds a registered pair exactly when t >= the
\* pair's next-due time, and holds nothing else; right after
\* mark_sent(target, type, t) with interval I the pair is absent at t and at
\* t+I-1 and present at t+I and after.
C1_DueNow ==
    LET nextDue == NextDue(vessel_schedules)
    IN  \A q \in QueryTimes(nextDue) :
            DueSet(vessel_schedules, q)
               = {<<e[1], e[2]>> : e \in {e \in nextDue : q >= e[3]}}

C1_AfterMarkSent(mmsi, mtype) ==
    Scheduled(vessel_schedules, mmsi, mtype) =>
        LET p == <<mmsi, mtype>>
            t == now
            I == Msg(vessel_schedules, mmsi, mtype).interval
        IN  /\ I > 0
            /\ \A q \in {t, t + I - 1} : p \notin DueSet(vessel_schedules', q)
            /\ \A q \in {t + I, t + I + 1, t + I + inactive_threshold} :
                  p \in DueSet(vessel_schedules', q)

C1_DueIffNextDue ==
    /\ []C1_DueNow
    /\ [][\A mmsi \in MMSIs, mtype \in MessageTypes :
             MarkMessageSent(mmsi, mtype) => C1_AfterMarkSent(mmsi, mtype)]_vars

\* a type-1 pair with interval 2 marked sent now: not due at now+1, due at now+2
C1_Witness ==
    /\ last_op = "mark_message_sent"
    /\ \E m \in MMSIs :
          /\ Scheduled(vessel_schedules, m, 1)
          /\ Msg(vessel_schedules, m, 1).last_sent = now
          /\ Msg(vessel_schedules, m, 1).interval = 2
          /\ <<m, 1>> \notin DueSet(vessel_schedules, now + 1)
          /\ <<m, 1>> \in DueSet(vessel_schedules, now + 2)

PriorityOf(schedules, p) == Msg(schedules, p[1], p[2]).priority

\* C2: the list get_due_messages returns holds every due pair and is, as a
\* whole, in non-decreasing priority value.
C2_GlobalPriorityOrder ==
    last_op = "get_due_messages" =>
        /\ \A p \in AllPairs(vessel_schedules) :
              now >= Msg(vessel_schedules, p[1], p[2]).next_transmission
                 => InSeq(p, last_ret)
        /\ \A i, j \in 1..Len(last_ret) :
              i < j => PriorityOf(vessel_schedules, last_ret[i])
                          <= PriorityOf(vessel_schedules, last_ret[j])

\* C3: mark_sent on a registered pair sets last_sent to the time, adds one
\* to the send counter and sets next_due to the time plus the interval; all
\* other pairs and the set and order of targets stay; on an unregistered
\* target or unscheduled type nothing changes.
C3_MarkSentStep(mmsi, mtype) ==
    IF Scheduled(vessel_schedules, mmsi, mtype)
    THEN LET old == Msg(vessel_schedules, mmsi, mtype)
             new == Msg(vessel_schedules', mmsi, mtype)
         IN  /\ Scheduled(vessel_schedules', mmsi, mtype)
             /\ new = [old EXCEPT !.last_sent = now,
                                  !.send_count = old.send_count + 1,
                                  !.next_transmission = now + old.interval]
             /\ AllPairs(vessel_schedules') = AllPairs(vessel_schedules)
             /\ \A p \in AllPairs(vessel_schedules) \ {<<mmsi, mtype>>} :
                   Msg(vessel_schedules', p[1], p[2]) = Msg(vessel_schedules, p[1], p[2])
             /\ Len(vessel_schedules') = Len(vessel_schedules)
             /\ \A i \in 1..Len(vessel_schedules) :
                   /\ vessel_schedules'[i].vessel_mmsi = vessel_schedules[i].vessel_mmsi
                   /\ vessel_schedules'[i].vessel_class = vessel_schedules[i].vessel_class
    ELSE vessel_schedules' = vessel_schedules

C3_MarkSentEffect ==
    [][\A mmsi \in MMSIs, mtype \in MessageTypes :
          MarkMessageSent(mmsi, mtype)
             => /\ C3_MarkSentStep(mmsi, mtype)
                /\ last_cleanup' = last_cleanup]_vars

\* a pair marked sent at a later time than its target was registered,
\* while a second target is registered
C3_Witness ==
    /\ last_op = "mark_message_sent"
    /\ Len(vessel_schedules) = 2
    /\ now = 300
    /\ \E p \in AllPairs(vessel_schedules) :
          /\ Msg(vessel_schedules, p[1], p[2]).send_count = 1
          /\ Msg(vessel_schedules, p[1], p[2]).last_sent = now
          /\ Msg(vessel_schedules, p[1], p[2]).next_transmission
                = now + Msg(vessel_schedules, p[1], p[2]).interval

Fresh(msg, start, interval) ==
    /\ msg.next_transmission = start
    /\ msg.interval = interval
    /\ msg.last_sent = None
    /\ msg.send_count = 0

\* C4: right after registration at t0 a Class A vessel schedules exactly
\* {1,2,3,5}, first due at t0, t0+10, t0+20, t0+30, with the type-2 interval
\* 5 times and the type-3 interval 10 times the type-1 interval; a Class B
\* vessel exactly {18,19,24}, first due at t0, t0+15, t0+45; a base station
\* exactly {4}; an aid-to-navigation exactly {21}; so at t0 type 1 is due and
\* type 5 is not.
C4_ClassA(S, m, t0) ==
    /\ TypesOf(S, m) = {1, 2, 3, 5}
    /\ Fresh(Msg(S, m, 1), t0, 2)
    /\ Fresh(Msg(S, m, 2), t0 + 10, 5 * Msg(S, m, 1).interval)
    /\ Fresh(Msg(S, m, 3), t0 + 20, 10 * Msg(S, m, 1).interval)
    /\ Fresh(Msg(S, m, 5), t0 + 30, 360)
    /\ <<m, 1>> \in DueSet(S, t0)
    /\ <<m, 5>> \notin DueSet(S, t0)
    /\ <<m, 5>> \notin DueSet(S, t0 + 29)
    /\ <<m, 5>> \in DueSet(S, t0 + 30)

C4_ClassB(S, m, t0) ==
    /\ TypesOf(S, m) = {18, 19, 24}
    /\ Fresh(Msg(S, m, 18), t0, 3)
    /\ Fresh(Msg(S, m, 19), t0 + 15, 30)
    /\ Fresh(Msg(S, m, 24), t0 + 45, 360)

C4_Registration ==
    [][\A m \in MMSIs :
          /\ AddVessel(m, CLASS_A) => C4_ClassA(vessel_schedules', m, now)
          /\ AddVessel(m, CLASS_B) => C4_ClassB(vessel_schedules', m, now)
          /\ AddBaseStation(m) =>
                /\ TypesOf(vessel_schedules', m) = {4}
                /\ Fresh(Msg(vessel_schedules', m, 4), now, 10)
          /\ AddAidToNavigation(m) =>
                /\ TypesOf(vessel_schedules', m) = {21}
                /\ Fresh(Msg(vessel_schedules', m, 21), now, 180)]_vars

\* a Class A vessel registered at t0 = 300 beside an earlier registration:
\* of its types only type 1 is due at t0
C4_Witness ==
    /\ last_op = "add_vessel"
    /\ now = 300
    /\ Len(vessel_schedules) = 2
    /\ TypesOf(vessel_schedules, vessel_schedules[2].vessel_mmsi) = {1, 2, 3, 5}
    /\ get_due_messages(<<vessel_schedules[2]>>, now)
          = <<<<vessel_schedules[2].vessel_mmsi, 1>>>>

\* C5: update_vessel_intervals sets the type-1 interval to 2 above 23 kn,
\* 6 above 14 kn up to 23 kn and 10 up to 14 kn, and the type-18 interval to
\* 5 above 14 kn, 30 above 2 kn up to 14 kn and 180 up to 2 kn.
C5_UpdateStep(m, speed) ==
    /\ Scheduled(vessel_schedules, m, 1) =>
          /\ Scheduled(vessel_schedules', m, 1)
          /\ Msg(vessel_schedules', m, 1).interval =
                (IF speed > 23 THEN 2 ELSE IF speed > 14 THEN 6 ELSE 10)
    /\ Scheduled(vessel_schedules, m, 18) =>
          /\ Scheduled(vessel_schedules', m, 18)
          /\ Msg(vessel_schedules', m, 18).interval =
                (IF speed > 14 THEN 5 ELSE IF speed > 2 THEN 30 ELSE 180)

C5_SpeedIntervals ==
    [][\A m \in MMSIs, speed \in Speeds :
          UpdateVesselIntervals(m, speed) => C5_UpdateStep(m, speed)]_vars

\* an update at 23 kn, the upper boundary of the middle band, gave a type-1
\* entry the interval 6
C5_Witness ==
    /\ last_op = "update_vessel_intervals"
    /\ \E m \in MMSIs :
          /\ Scheduled(vessel_schedules, m, 1)
          /\ Msg(vessel_schedules, m, 1).interval = 6
          /\ Type1Interval(23) = 6

\* the most recent last_sent of a target is more than 1 hour before t
SentLongAgo(schedule, t) ==
    LET sent == {schedule.messages[i].last_sent : i \in 1..Len(schedule.messages)} \ {None}
    IN  sent # {} /\ t - SetMax(sent) > inactive_threshold

\* C6: a cleanup call less than 5 minutes after the creation or the previous
\* effective cleanup changes nothing; an effective call removes exactly the
\* targets whose most recent last_sent is more than 1 hour old, keeps the
\* others in order and restarts the 5 minutes; nothing else moves the time
\* of the last cleanup.
C6_CleanupStep ==
    IF now - last_cleanup < cleanup_interval
    THEN /\ vessel_schedules' = vessel_schedules
         /\ last_cleanup' = last_cleanup
    ELSE /\ vessel_schedules' =
               SelectSeq(vessel_schedules, LAMBDA s : ~SentLongAgo(s, now))
         /\ last_cleanup' = now

RegisteredAt(schedule) ==
    SetMin({schedule.messages[i].next_transmission : i \in 1..Len(schedule.messages)})

NoSendWithinThreshold(schedule, t) ==
    \/ SentLongAgo(schedule, t)
    \/ /\ schedule.messages # <<>>
       /\ \A i \in 1..Len(schedule.messages) : schedule.messages[i].last_sent = None
       /\ t - RegisteredAt(schedule) > inactive_threshold

\* C7: after an effective cleanup no target remains for which no message
\* was sent within the last hour, a target never marked sent since its
\* registration over an hour ago included.
C7_InactiveDestroyed ==
    (last_op = "cleanup_old_schedules" /\ last_ret.effective) =>
        \A i \in 1..Len(vessel_schedules) :
            ~NoSendWithinThreshold(vessel_schedules[i], now)

\* the sum of the send counters of all registered pairs
TotalSent(schedules) ==
    FnSum([p \in AllPairs(schedules) |-> Msg(schedules, p[1], p[2]).send_count])

\* C8: the statistics are derived from the current state: the grand total
\* is the sum of all send counters and the sum of the per-type totals, each
\* type's count is the number of targets scheduling it; and the call leaves
\* the scheduler's state as it is.
C8_StatsOfState ==
    LET st == get_transmission_statistics(vessel_schedules)
    IN  /\ st.total_vessels = Cardinality(Targets(vessel_schedules))
        /\ st.total_messages_sent = TotalSent(vessel_schedules)
        /\ st.total_messages_sent =
              FnSum([t \in DOMAIN st.message_types |-> st.message_types[t].total_sent])
        /\ DOMAIN st.message_types =
              {t \in MessageTypes : \E m \in MMSIs : Scheduled(vessel_schedules, m, t)}
        /\ \A t \in DOMAIN st.message_types :
              /\ st.message_types[t].count =
                    Cardinality({m \in MMSIs : Scheduled(vessel_schedules, m, t)})
              /\ st.message_types[t].total_sent =
                    FnSum([m \in {m \in MMSIs : Scheduled(vessel_schedules, m, t)} |->
                              Msg(vessel_schedules, m, t).send_count])

C8_StatsReadOnly ==
    /\ []C8_StatsOfState
    /\ [][GetTransmissionStatistics =>
             /\ UNCHANGED <<vessel_schedules, last_cleanup, now>>
             /\ last_ret' = get_transmission_statistics(vessel_schedules')]_vars

\* statistics asked of one Class A vessel with one message sent
C8_Witness ==
    /\ last_op = "get_transmission_statistics"
    /\ last_ret.total_vessels = 1
    /\ last_ret.total_messages_sent = 1
    /\ Cardinality(DOMAIN last_ret.message_types) = 4

\* C9 as claimed: each target is counted under its own target class, so the
\* Class A count is the number of Class A vessels and the Class B count the
\* number of Class B vessels, base stations and aids-to-navigation apart.
C9_OwnClassCounts ==
    LET st == get_transmission_statistics(vessel_schedules)
    IN  /\ Get0(st.vessel_classes, CLASS_A) =
              Cardinality({m \in MMSIs : Scheduled(vessel_schedules, m, 1)})
        /\ Get0(st.vessel_classes, CLASS_B) =
              Cardinality({m \in MMSIs : Scheduled(vessel_schedules, m, 18)})

\* C9 amended: each target is counted under the class its schedule records,
\* a vessel under its own class and a base station or aid-to-navigation
\* under Class A; the per-class counts sum to the number of targets.
C9_RecordedClassCounts ==
    LET st == get_transmission_statistics(vessel_schedules)
    IN  /\ Get0(st.vessel_classes, CLASS_A) =
              Cardinality({m \in MMSIs : \E t \in {1, 4, 21} :
                              Scheduled(vessel_schedules, m, t)})
        /\ Get0(st.vessel_classes, CLASS_B) =
              Cardinality({m \in MMSIs : Scheduled(vessel_schedules, m, 18)})
        /\ DOMAIN st.vessel_classes \subseteq {CLASS_A, CLASS_B}
        /\ \A c \in DOMAIN st.vessel_classes : st.vessel_classes[c] >= 1
        /\ FnSum(st.vessel_classes) = Cardinality(Targets(vessel_schedules))

\* statistics asked with a base station and a Class B vessel registered
C9_Witness ==
    /\ last_op = "get_transmission_statistics"
    /\ Scheduled(vessel_schedules, 1, 4)
    /\ Scheduled(vessel_schedules, 2, 18)
    /\ last_ret.vessel_classes = [c \in {CLASS_A, CLASS_B} |-> 1]

SeqIds(message) ==
    {message[i].sequential_message_id : i \in 1..Len(message)}

\* C10: every emitted single-fragment message has an empty
\* sequential-message-id, and every emitted multi-fragment message has a
\* sequential-message-id that is one decimal digit and the same in all its
\* fragments.
C10_SequentialIdByFragments ==
    \A k \in 1..Len(emitted) :
        LET message == emitted[k]
        IN  IF Len(message) = 1
            THEN message[1].sequential_message_id = ""
            ELSE \E d \in 0..9 : SeqIds(message) = {Str(d)}

\* the id of the k-th multi-fragment message of a generator
ExpectedId(k) == IF k % 10 # 0 THEN Str(k % 10) ELSE ""

\* the last call's multi-fragment messages carry the id of the count k
IdsFollowCount(counter, messages, k) ==
    /\ counter = k % 10
    /\ \A i \in 1..Len(messages) :
          Len(messages[i]) > 1 => SeqIds(messages[i]) = {ExpectedId(k)}

\* C11: on each generator instance the k-th multi-fragment message gets the
\* id str(k mod 10), or the empty string when k mod 10 = 0 (1,...,9,empty,
\* 1,...); a call that emits only single-fragment messages leaves the
\* counter as it is; and a call on one instance leaves the other instance's
\* counter as it is.
C11_IdsOfBoth ==
    /\ IdsFollowCount(sequence_counter, emitted, multi_count)
    /\ IdsFollowCount(peer.sequence_counter, peer.emitted, peer.multi_count)

C11_Rotation ==
    /\ []C11_IdsOfBoth
    /\ [][\A t \in CountedTypes :
             /\ CountedGenerate(t) =>
                   /\ peer'.sequence_counter = peer.sequence_counter
                   /\ (MultiFragments(emitted') = 0
                          => sequence_counter' = sequence_counter)
                   /\ (MultiFragments(emitted') > 0
                          => sequence_counter' = (sequence_counter + 1) % 10)
             /\ PeerGenerate(t) =>
                   /\ sequence_counter' = sequence_counter
                   /\ (MultiFragments(peer'.emitted) = 0
                          => peer'.sequence_counter = peer.sequence_counter)]_vars

\* the first generator has just emitted its 10th multi-fragment message,
\* with the empty id, while the second has emitted two and stands at 2
C11_Witness ==
    /\ multi_count = 10
    /\ Len(emitted) = 1 /\ Len(emitted[1]) = 2
    /\ SeqIds(emitted[1]) = {""}
    /\ peer.multi_count = 2
    /\ peer.sequence_counter = 2

\* the de-armored bits of the fragments i.. in order, the fill bits dropped
\* from the final fragment only
RECURSIVE Reassemble(_, _)
Reassemble(fragments, i) ==
    IF i > Len(fragments) THEN <<>>
    ELSE decode_aivdm_payload(fragments[i].payload,
                              IF i = Len(fragments) THEN fragments[i].fill_bits ELSE 0)
         \o Reassemble(fragments, i + 1)

\* C12: de-armoring the fragments of from_binary_message in order, dropping
\* only the final fragment's fill bits and concatenating gives back the
\* payload; every fragment but the final one has 0 fill bits.
C12_FragmentsRoundTrip ==
    last_op = "from_binary_message" =>
        /\ Reassemble(res, 1) = arg
        /\ \A i \in 1..(Len(res) - 1) : res[i].fill_bits = 0

\* a payload of 673 mixed bits cut into three fragments, the last with fill bits
C12_Witness ==
    /\ last_op = "from_binary_message"
    /\ Len(arg) = 673
    /\ \E i, j \in 1..Len(arg) : arg[i] # arg[j]
    /\ Len(res) = 3
    /\ res[3].fill_bits = 5

CeilDiv(n, d) == (n + d - 1) \div d

\* C13: for a payload of n >= 1 bits from_binary_message emits ceil(n/336)
\* fragments (one up to 336 bits, two for 337), numbered 1..total in order
\* with the same total in each and no payload longer than 56 characters;
\* get_part_count returns the same number.
C13_FragmentCount ==
    Len(arg) >= 1 =>
        /\ last_op = "from_binary_message" =>
              /\ Len(res) = CeilDiv(Len(arg), 336)
              /\ Len(arg) <= 336 => Len(res) = 1
              /\ Len(arg) = 337 => Len(res) = 2
              /\ \A i \in 1..Len(res) :
                    /\ res[i].sentence_number = i
                    /\ res[i].total_sentences = Len(res)
                    /\ Len(res[i].payload) <= 56
              /\ get_part_count(arg, MaxCharsPerPart) = Len(res)
        /\ last_op = "get_part_count" => res = CeilDiv(Len(arg), 336)

\* the part count of a 336-bit payload, which does not split
C13_Witness ==
    /\ last_op = "get_part_count"
    /\ Len(arg) = 336
    /\ res = 1

\* C14: decode_6bit_to_binary(encode_binary_to_6bit(B)) has the length
\* len(B) + calculate_fill_bits(len(B)), starts with B and goes on with 0
\* bits only; the 64 characters of the alphabet are distinct, so that
\* decoding a character gives back the value it encodes.
C14_ArmorRoundTrip ==
    /\ Cardinality({AIS_6BIT_ASCII[i] : i \in 1..64}) = 64
    /\ \A v \in 0..63 : DecodeChar(AIS_6BIT_ASCII[v + 1]) = Bits6(v)
    /\ last_op = "decode_6bit_to_binary" =>
          /\ Len(res) = Len(arg) + calculate_fill_bits(Len(arg))
          /\ SubSeq(res, 1, Len(arg)) = arg
          /\ \A i \in (Len(arg) + 1)..Len(res) : res[i] = 0

\* the round trip of the 7-bit payload of 1 bits: 12 bits, five of them padding
C14_Witness ==
    /\ last_op = "decode_6bit_to_binary"
    /\ arg = <<1, 1, 1, 1, 1, 1, 1>>
    /\ Len(res) = 12
    /\ res[7] = 1 /\ res[8] = 0

\* C15: encode_binary_to_6bit("000001000010000011") = "123",
\* encode_binary_to_6bit("000000") = "0" and encode_binary_to_6bit("111111")
\* = "?" (code points 49 50 51, 48 and 63).
C15_EncodeExamples ==
    last_op = "encode_binary_to_6bit" =>
        /\ arg \in ExamplePayloads => res = <<49, 50, 51>>
        /\ arg = <<0, 0, 0, 0, 0, 0>> => res = <<48>>
        /\ arg = <<1, 1, 1, 1, 1, 1>> => res = <<63>>

-----------------------------------------------------------------------------
(* The binary encoder *)

OnlyBits(binary) == \A i \in 1..Len(binary) : binary[i] \in {0, 1}

RECURSIVE BitsValue(_)
\* int(binary, 2)
BitsValue(binary) ==
    IF binary = <<>> THEN 0
    ELSE 2 * BitsValue(SubSeq(binary, 1, Len(binary) - 1)) + binary[Len(binary)]

\* for every input within the documented ranges a payload has the length
\* that the generator's model gives its kind, the 6 bits of the message type
\* first and the MMSI in its bits 8..37 (counted from 0)
EncodedLengthOfKinds ==
    (last_op \in Kinds /\ arg \in InRangeInputs) =>
        /\ OnlyBits(res)
        /\ Len(res) = EncodedLength(last_op)
        /\ SubSeq(res, 1, 6) = Binary(KindType(last_op), 6)
        /\ SubSeq(res, 9, 38) = Binary(arg.mmsi, 30)

\* C16: for every input whose fields are within their documented ranges the
\* payload of each variant has its documented length (168 bits for types 1,
\* 2, 3, 4 and 18, 424 for type 5, 312 for type 19, 272 for type 21 and 168
\* for type 24 Part A and Part B), its first 6 bits are the message type and
\* its bits 8..37 (counted from 0) the MMSI
C16_DocumentedLengths ==
    (last_op \in Kinds /\ arg \in InRangeInputs) =>
        /\ Len(res) = AIS_MESSAGE_LENGTHS(last_op)
        /\ Len(res) % 8 = 0
        /\ SubSeq(res, 1, 6) = Binary(KindType(last_op), 6)
        /\ SubSeq(res, 9, 38) = Binary(arg.mmsi, 30)

\* C17: for an input with a numeric field outside its range every encode
\* function returns only '0' and '1' characters, as many as the variant has
\* for inputs within their ranges
C17_OutOfRangeClamped ==
    (last_op \in Kinds /\ arg \in Inputs \ InRangeInputs) =>
        /\ OnlyBits(res)
        /\ Len(res) = EncodedLength(last_op)

\* the value a field is to hold: the sentinel from the limit on, and
\* below it the rounded tenths between 0 and the field's largest value
Clamped(tenths, limit, sentinel, largest) ==
    IF tenths >= limit * Unit THEN sentinel
    ELSE Max(0, Min(largest, RoundUnits(tenths)))

\* C18: the encoded speed over ground is 1023 from 102.3 kn on and otherwise
\* round(10 x speed) clamped to 0..1022, the encoded course is 3600 from 360
\* degrees on and otherwise round(10 x course) clamped to 0..3599, the encoded
\* heading is 511 from 511 on and otherwise the heading clamped to 0..359; no
\* measurement below the limit is encoded as the sentinel, and the results
\* have 10, 12 and 9 bits
C18_SogCogHeading ==
    /\ last_op = "_encode_sog" =>
          /\ OnlyBits(res) /\ Len(res) = 10
          /\ BitsValue(res) = Clamped(arg.sog * 10, 1023, 1023, 1022)
          /\ (arg.sog * 10 < 1023 * Unit => BitsValue(res) # 1023)
    /\ last_op = "_encode_cog" =>
          /\ OnlyBits(res) /\ Len(res) = 12
          /\ BitsValue(res) = Clamped(arg.cog * 10, 3600, 3600, 3599)
          /\ (arg.cog < 360 * Unit => BitsValue(res) # 3600)
    /\ last_op = "_encode_heading" =>
          /\ OnlyBits(res) /\ Len(res) = 9
          /\ BitsValue(res) = Clamped(arg.heading * Unit, 511, 511, 359)
          /\ (arg.heading < 511 => BitsValue(res) # 511)

\* a speed of 102.28125 kn, whose tenths round to 1023, has been encoded as
\* 1022
C18_Witness ==
    /\ last_op = "_encode_sog"
    /\ arg.sog = 3273
    /\ RoundUnits(arg.sog * 10) = 1023
    /\ BitsValue(res) = 1022

\* the 6-bit value a character is to have: 32 for a space, its own
\* code for a digit, 0 for a code outside 32..95; other characters are left
\* open
ClaimedSixBit(char, value) ==
    /\ char = 32 => value = 32
    /\ char \in 48..57 => value = char
    /\ char \notin 32..95 => value = 0

\* C19: a text field of n characters is encoded in 6n bits, the text being
\* padded with spaces or cut to n characters, a space encoded as 32, a digit
\* as its own code and a character outside 32..95 as 0
C19_TextEncoding ==
    last_op = "_encode_string" =>
        \E n \in TextWidths :
            /\ Len(res) = 6 * n
            /\ \A i \in 1..n :
                  ClaimedSixBit(LjustCut(arg.vessel_name, n)[i],
                                BitsValue(SubSeq(res, 6 * i - 5, 6 * i)))

-----------------------------------------------------------------------------
(* The sentences returned by generate_message *)

\* the first position from a start on that holds a character, or the
\* position after the last
NextChar(str, char, start) ==
    LET hits == {i \in start..Len(str) : str[i] = char}
    IN  IF hits = {} THEN Len(str) + 1 ELSE SetMin(hits)

\* the number a one-digit field stands for, or -1
DigitOf(field) ==
    IF Len(field) = 1 /\ field[1] \in 48..57 THEN field[1] - 48 ELSE -1

IsUpperHex(char) == char \in (48..57) \cup (65..70)

HexValue(char) == IF char <= 57 THEN char - 48 ELSE char - 55

\* str reads !AIVDM,<total>,<part>,<seqid>,<channel>,<payload>,<fillbits>*<checksum>
\* for a fragment of n bits
SentenceForm(str, n) ==
    LET c1 == NextChar(str, 44, 1)
        c2 == NextChar(str, 44, c1 + 1)
        c3 == NextChar(str, 44, c2 + 1)
        c4 == NextChar(str, 44, c3 + 1)
        c5 == NextChar(str, 44, c4 + 1)
        c6 == NextChar(str, 44, c5 + 1)
        star == NextChar(str, 42, 1)
        total == DigitOf(SubSeq(str, c1 + 1, c2 - 1))
        part == DigitOf(SubSeq(str, c2 + 1, c3 - 1))
        channel == SubSeq(str, c4 + 1, c5 - 1)
        payload == SubSeq(str, c5 + 1, c6 - 1)
        fill == DigitOf(SubSeq(str, c6 + 1, star - 1))
    IN  /\ Len(str) > 3
        /\ str[1] = 33
        /\ c6 < star
        /\ NextChar(str, 44, c6 + 1) = Len(str) + 1
        /\ star = Len(str) - 2
        /\ SubSeq(str, 2, c1 - 1) = <<65, 73, 86, 68, 77>>
        /\ total \in 1..9
        /\ part \in 1..total
        /\ channel \in {<<65>>, <<66>>}
        /\ \A i \in 1..Len(payload) : InAlphabet(payload[i])
        /\ fill \in 0..5
        /\ fill = (6 - (n % 6)) % 6
        /\ 6 * Len(payload) = n + fill
        /\ IsUpperHex(str[star + 1])
        /\ IsUpperHex(str[star + 2])
        /\ 16 * HexValue(str[star + 1]) + HexValue(str[star + 2])
              = XorAll(0, SubSeq(str, 2, star - 1))

\* the kinds of payload a message type is made of
KindsOfType(message_type) ==
    IF message_type = 24 THEN <<"24A", "24B">>
    ELSE << CHOOSE kind \in Kinds \ {"24A", "24B"} : KindType(kind) = message_type >>

RECURSIVE FragmentBits(_)
\* how many bits each fragment of the payloads of these kinds carries
FragmentBits(kinds) ==
    IF kinds = <<>> THEN <<>>
    ELSE LET binary == encode_type(Head(kinds))
             parts == IF needs_splitting(binary, MaxCharsPerPart)
                      THEN split_message(binary, MaxCharsPerPart)
                      ELSE <<binary>>
         IN  [i \in 1..Len(parts) |-> Len(parts[i])] \o FragmentBits(Tail(kinds))

\* C20: every sentence that generate_message returns, for every supported
\* type and after any earlier calls, reads
\* !AIVDM,<total>,<part>,<seqid>,<channel>,<payload>,<fillbits>*<checksum>
\* with total in 1..9, part in 1..total, channel A or B, a payload of
\* alphabet characters, fillbits in 0..5 equal to (6 - n mod 6) mod 6 for the
\* n bits of the fragment, and as checksum the two upper-case hex digits of
\* the XOR of the characters between '!' and '*'
C20_SentenceForm ==
    [][\A message_type \in MessageTypes, channel \in Channels :
          GenerateMessage(message_type, channel) =>
              LET bits == FragmentBits(KindsOfType(message_type))
              IN  /\ Len(last_ret') = Len(bits)
                  /\ \A k \in 1..Len(bits) : SentenceForm(last_ret'[k], bits[k])]_vars

\* a type 5 message has been returned as two sentences, the second of them
\* "!AIVDM,2,2,..." with 2 fill bits
C20_Witness ==
    /\ last_op = "generate_message"
    /\ Len(last_ret) = 2
    /\ SubSeq(last_ret[2], 1, 10) = <<33, 65, 73, 86, 68, 77, 44, 50, 44, 50>>
    /\ last_ret[2][Len(last_ret[2]) - 3] = 50

-----------------------------------------------------------------------------
(* The NMEA sentence framework *)

\* the two hexadecimal digits after the "*" of a sentence
ChecksumDigits(sentence) == Slice(sentence, FindChar(sentence, 42) + 1, FindChar(sentence, 42) + 2)

\* the characters between the first character and the "*"
BodyOf(sentence) == Slice(sentence, 2, FindChar(sentence, 42) - 1)

EndsWithCRLF(sentence) == Len(sentence) >= 2 /\ Slice(sentence, Len(sentence) - 1, Len(sentence)) = <<13, 10>>

\* C21: for every talker, sentence id and list of fields the built sentence
\* is accepted by SentenceValidator.is_valid: it starts with "$", its two
\* hexadecimal digits after "*" are the XOR of the characters between "$"
\* and "*", it ends with CR LF, and it has at most 82 characters with the
\* line end
C21_BuiltSentenceValid ==
    last_op = "build" =>
        /\ is_valid(res)
        /\ res[1] = 36
        /\ ChecksumDigits(res) = calculate_checksum(BodyOf(res))
        /\ EndsWithCRLF(res)
        /\ Len(res) <= 82

\* what the builder does give: "$", the header, the joined fields, "*", the
\* XOR of everything before the last "*", CR LF, whatever the length
BuiltSentenceFramed ==
    last_op = "build" =>
        LET n == Len(res)
        IN  /\ res[1] = 36
            /\ EndsWithCRLF(res)
            /\ res[n - 4] = 42
            /\ Slice(res, n - 3, n - 2) = calculate_checksum(Slice(res, 2, n - 5))
            /\ (Len(res) <= 82 /\ Positions(res, 42) = {n - 4} => is_valid(res))

\* the strings of the four rejected kinds
Rejected(raw) ==
    \/ raw = <<>>
    \/ raw[1] \notin {36, 33}
    \/ Positions(raw, 42) = {}
    \/ Len(raw) > 82
    \/ UpperStr(RstripCRLF(Slice(raw, FindChar(raw, 42) + 1, Len(raw)))) # calculate_checksum(BodyOf(raw))

\* C22: parsing fails, with no parsed result, for every string that does
\* not start with "$" or "!", has no "*", is longer than 82 characters with
\* its line end, or whose checksum differs from the recomputed XOR (compared
\* without case); and for every other sentence of a recognised sentence id
\* it returns the talker, the sentence id, the fields the sentence was built
\* from and the checksum
C22_ParseAcceptsWellFormed ==
    last_op = "parse" =>
        LET raw == last_ret
        IN  /\ Rejected(raw) => res = Failure
            /\ (~Rejected(raw) /\ Slice(raw, 4, 6) \in SentenceId) =>
                  /\ res.error = ""
                  /\ res.talker_id = Slice(raw, 2, 3)
                  /\ res.sentence_id = Slice(raw, 4, 6)
                  /\ res.fields = arg.fields
                  /\ UpperStr(res.checksum) = calculate_checksum(BodyOf(raw))

\* what the parser does: it rejects the "!" sentences too, measures the
\* length after stripping the line end, reports an unknown talker as GP
\* and an empty list of fields as one empty field
ParseOfDollarSentences ==
    last_op = "parse" =>
        LET raw == last_ret
        IN  /\ (Rejected(Strip(raw)) \/ raw[1] = 33) => res = Failure
            /\ (~Rejected(Strip(raw)) /\ raw[1] = 36 /\ Slice(raw, 4, 6) \in SentenceId /\ Positions(raw, 42) = {FindChar(raw, 42)}) =>
                  /\ res.error = ""
                  /\ res.talker_id = (IF Slice(raw, 2, 3) \in TalkerId THEN Slice(raw, 2, 3) ELSE GP)
                  /\ res.sentence_id = Slice(raw, 4, 6)
                  /\ res.fields = (IF arg.fields = <<>> THEN <<<<>>>> ELSE arg.fields)
                  /\ UpperStr(res.checksum) = calculate_checksum(BodyOf(raw))

\* C23: generate_message of a message type outside 1, 2, 3, 4, 5, 18, 19,
\* 21, 24 fails with the unsupported-type error, returns no sentence and
\* leaves the sequence counter as it was; of a type inside the set it never
\* fails with that error
C23_UnsupportedType ==
    [][\A message_type \in RequestedTypes, channel \in Channels :
          /\ GenerateUnsupported(message_type, channel) =>
                /\ message_type \notin {1, 2, 3, 4, 5, 18, 19, 21, 24}
                /\ last_op' = "generate_message_error"
                /\ last_ret' = <<>>
                /\ sequence_counter' = sequence_counter
                /\ emitted' = emitted
          /\ GenerateMessage(message_type, channel) =>
                /\ message_type \in {1, 2, 3, 4, 5, 18, 19, 21, 24}
                /\ last_op' = "generate_message"
                /\ last_ret' # <<>>
          /\ message_type \notin {1, 2, 3, 4, 5, 18, 19, 21, 24} =>
                ENABLED GenerateUnsupported(message_type, channel) /\ ~ENABLED GenerateMessage(message_type, channel)
          /\ message_type \in {1, 2, 3, 4, 5, 18, 19, 21, 24} =>
                ~ENABLED GenerateUnsupported(message_type, channel)]_vars

\* an unsupported request after three multi-fragment messages: the counter
\* is still 3 and nothing was returned
C23_Witness ==
    /\ last_op = "generate_message_error"
    /\ sequence_counter = 3
    /\ last_ret = <<>>

-----------------------------------------------------------------------------
(* The serial output *)

\* C24: after any sequence of start, send_sentence and stop calls
\* sentences_sent is the number of send_sentence calls that returned True:
\* a call returns True and adds one only while the output is running with
\* an open port and the write succeeds, it returns False and leaves the
\* counter when the output was never started, was stopped, or the write
\* timed out or failed; a failed start raises and leaves the output not
\* running
C24_SentCounter ==
    /\ [](output.sentences_sent = true_returns)
    /\ [][\A outcome \in WriteOutcomes :
            SendSentence(outcome) =>
                IF output.is_running /\ output.serial_port = "open" /\ outcome = "written"
                THEN last_ret' = "True" /\ output'.sentences_sent = output.sentences_sent + 1
                ELSE last_ret' = "False" /\ output'.sentences_sent = output.sentences_sent]_vars
    /\ [][Start("SerialException") /\ ~output.is_running =>
            last_ret' = "RuntimeError" /\ ~output'.is_running]_vars
    /\ [][(Stop \/ PortCloses \/ \E outcome \in OpenOutcomes : Start(outcome)) =>
            output'.sentences_sent = output.sentences_sent]_vars

\* a write that timed out after two sentences were sent: the call returned
\* False and the counter is still 2
C24_Witness ==
    /\ last_op = "send_sentence"
    /\ last_ret = "False"
    /\ output.is_running
    /\ output.serial_port = "open"
    /\ output.sentences_sent = 2
    /\ true_returns = 2

-----------------------------------------------------------------------------
(* Threads sharing one generator *)

\* C25: when the calls on one generator are serialised, any two consecutive
\* multi-fragment messages carry different sequential ids; two threads that
\* call generate_type_5 on the shared generator without a lock can interleave
\* the read, increment and write of the counter so that two different
\* messages are emitted with the same sequential id
C25_SerialisedIdsDiffer ==
    (lock # "absent" /\ Len(recent) = 2) => recent[1].seq_id # recent[2].seq_id

\* without a lock: the two threads have each emitted a message, and both
\* messages carry the sequential id 1
C25_Witness ==
    /\ lock = "absent"
    /\ Len(recent) = 2
    /\ recent[1].producer # recent[2].producer
    /\ recent[1].seq_id = "1"
    /\ recent[2].seq_id = "1"
    /\ sequence_counter = 1

-----------------------------------------------------------------------------
(* The frame of update_vessel_intervals *)

\* a message entry with its interval left out
WithoutInterval(msg) == [msg EXCEPT !.interval = 0]

\* C26: update_vessel_intervals changes only the interval of the target's
\* type-1 and type-18 entries: the next transmission, last_sent and send
\* count of every pair, the intervals of the other message types and of the
\* other targets stay, so a new interval counts only from the next mark_sent
\* (which schedules sent_time + the interval of that moment) and never moves
\* a next transmission already scheduled; for an unregistered target the
\* call changes nothing
C26_UpdateFrame ==
    /\ [][\A m \in MMSIs, speed \in Speeds :
            UpdateVesselIntervals(m, speed) =>
                /\ ~Registered(vessel_schedules, m) => vessel_schedules' = vessel_schedules
                /\ Len(vessel_schedules') = Len(vessel_schedules)
                /\ \A i \in 1..Len(vessel_schedules) :
                      LET old == vessel_schedules[i]
                          new == vessel_schedules'[i]
                      IN  /\ new.vessel_mmsi = old.vessel_mmsi
                          /\ new.vessel_class = old.vessel_class
                          /\ Len(new.messages) = Len(old.messages)
                          /\ \A j \in 1..Len(old.messages) :
                                /\ WithoutInterval(new.messages[j]) = WithoutInterval(old.messages[j])
                                /\ new.messages[j].interval # old.messages[j].interval =>
                                      old.vessel_mmsi = m /\ old.messages[j].message_type \in {1, 18}
                /\ now' = now
                /\ last_cleanup' = last_cleanup]_vars
    /\ [][\A m \in MMSIs, t \in MessageTypes :
            (MarkMessageSent(m, t) /\ Scheduled(vessel_schedules, m, t)) =>
                Msg(vessel_schedules', m, t).next_transmission = now + Msg(vessel_schedules, m, t).interval]_vars

\* a type-1 entry sent once at its configured interval and then updated at
\* a speed that gives another interval: the next transmission is still
\* last_sent + the configured interval
C26_Witness ==
    /\ last_op = "update_vessel_intervals"
    /\ \E m \in MMSIs :
          /\ Scheduled(vessel_schedules, m, 1)
          /\ Msg(vessel_schedules, m, 1).interval # ConfigInterval(1)
          /\ Msg(vessel_schedules, m, 1).send_count = 1
          /\ Msg(vessel_schedules, m, 1).next_transmission = Msg(vessel_schedules, m, 1).last_sent + ConfigInterval(1)

-----------------------------------------------------------------------------
(* The AIS loop as the scheduler's driver *)

\* how often a pair occurs in a list of pairs
Occurrences(pair, pairs) == Cardinality({i \in 1..Len(pairs) : pairs[i] = pair})

\* what an iteration of the loop does to a pair: it is sent at most once,
\* and when it was sent before, not earlier than that send plus the interval
\* the pair had then
C27_LoopStep(seconds) ==
    \A m \in MMSIs, t \in MessageTypes :
        /\ Occurrences(<<m, t>>, last_ret') <= 1
        /\ Occurrences(<<m, t>>, last_ret') = 1 =>
              /\ Scheduled(vessel_schedules, m, t)
              /\ now + seconds >= Msg(vessel_schedules, m, t).next_transmission
              /\ Msg(vessel_schedules, m, t).last_sent # None => now + seconds >= not_before[<<m, t>>]
              /\ Scheduled(vessel_schedules', m, t) =>
                    /\ Msg(vessel_schedules', m, t).send_count = Min(MaxCount, Msg(vessel_schedules, m, t).send_count + 1)
                    /\ Msg(vessel_schedules', m, t).last_sent = now'
                    /\ Msg(vessel_schedules', m, t).next_transmission = now' + Msg(vessel_schedules, m, t).interval
        /\ (Occurrences(<<m, t>>, last_ret') = 0 /\ Scheduled(vessel_schedules, m, t) /\ Scheduled(vessel_schedules', m, t)) =>
              /\ now + seconds < Msg(vessel_schedules, m, t).next_transmission
              /\ Msg(vessel_schedules', m, t).send_count = Msg(vessel_schedules, m, t).send_count

C28_NoConcurrentFailure ==
    /\ threads.sim.pc # "KeyError"
    /\ threads.ais.pc # "RuntimeError"
\* what holds of every scheduled message: it was sent a counted number of
\* times, it has a last-sent time exactly when it was sent, and it is next
\* due no earlier than it was last sent
MessageConsistent(msg) ==
    /\ msg.send_count >= 0
    /\ (msg.last_sent = None) <=> (msg.send_count = 0)
    /\ msg.last_sent # None => msg.next_transmission >= msg.last_sent

AllMessagesConsistent ==
    \A i \in 1..Len(vessel_schedules) :
        \A j \in 1..Len(vessel_schedules[i].messages) :
            MessageConsistent(vessel_schedules[i].messages[j])

\* a step keeps the history of the pair (m, t): its send counter does not
\* go down, and its last-sent time changes only in mark_message_sent
HistoryKept(m, t) ==
    /\ Msg(vessel_schedules', m, t).send_count >= Msg(vessel_schedules, m, t).send_count
    /\ Msg(vessel_schedules', m, t).last_sent # Msg(vessel_schedules, m, t).last_sent
          => last_op' = "mark_message_sent"

Registrations == {"add_vessel", "add_base_station", "add_aid_to_navigation"}

\* a step of an operation outside excluded keeps the history of every pair
\* that is scheduled before and after it
StepKeepsHistory(excluded) ==
    (vessel_schedules' # vessel_schedules /\ last_op' \notin excluded) =>
        \A i \in 1..Len(vessel_schedules) :
            \A j \in 1..Len(vessel_schedules[i].messages) :
                LET msg == vessel_schedules[i].messages[j]
                IN  Scheduled(vessel_schedules', msg.vessel_mmsi, msg.message_type)
                       => HistoryKept(msg.vessel_mmsi, msg.message_type)

OneSchedulePerTarget ==
    \A i, j \in 1..Len(vessel_schedules) :
        vessel_schedules[i].vessel_mmsi = vessel_schedules[j].vessel_mmsi => i = j

\* the list get_due_messages returned names no pair twice
DuePairsOnce ==
    last_op = "get_due_messages" =>
        \A i, j \in 1..Len(last_ret) : last_ret[i] = last_ret[j] => i = j

\* a registration step puts fresh, the schedule the same call gives an
\* empty scheduler, in the place of the schedule the MMSI had, or behind
\* the others when it had none; nothing of the old schedule is kept, and
\* the total of the send counters goes down by what the old schedule had
\* counted
Replaces(mmsi, fresh) ==
    /\ Registered(vessel_schedules', mmsi)
    /\ Find(vessel_schedules', mmsi) = fresh[1]
    /\ \A i \in 1..Len(fresh[1].messages) :
          fresh[1].messages[i].send_count = 0 /\ fresh[1].messages[i].last_sent = None
    /\ \A other \in MMSIs \ {mmsi} :
          /\ Registered(vessel_schedules', other) <=> Registered(vessel_schedules, other)
          /\ Registered(vessel_schedules, other) =>
                Find(vessel_schedules', other) = Find(vessel_schedules, other)
    /\ IF Registered(vessel_schedules, mmsi)
       THEN /\ Len(vessel_schedules') = Len(vessel_schedules)
            /\ SchedIndex(vessel_schedules', mmsi) = SchedIndex(vessel_schedules, mmsi)
            /\ TotalSent(vessel_schedules') =
                  TotalSent(vessel_schedules) - TotalSent(<<Find(vessel_schedules, mmsi)>>)
       ELSE /\ Len(vessel_schedules') = Len(vessel_schedules) + 1
            /\ TotalSent(vessel_schedules') = TotalSent(vessel_schedules)

RegistrationReplaces ==
    \A mmsi \in MMSIs :
        /\ \A vessel_class \in {CLASS_A, CLASS_B} :
              AddVessel(mmsi, vessel_class) =>
                  Replaces(mmsi, add_vessel(<<>>, mmsi, vessel_class, now))
        /\ AddBaseStation(mmsi) => Replaces(mmsi, add_base_station(<<>>, mmsi, now))
        /\ AddAidToNavigation(mmsi) => Replaces(mmsi, add_aid_to_navigation(<<>>, mmsi, now))

RemoveOfUnregistered ==
    \A mmsi \in MMSIs :
        (RemoveVessel(mmsi) /\ ~Registered(vessel_schedules, mmsi)) =>
            UNCHANGED <<vessel_schedules, last_cleanup, now>>

\* C30: the scheduler holds at most one schedule per MMSI; registering an
\* MMSI that is registered, as a vessel, a base station or an aid to
\* navigation, replaces its schedule as a whole, so that get_due_messages
\* returns no pair twice, the send counters and last-sent times the MMSI
\* had are gone and the total of the statistics is lower by them; and
\* remove_vessel of an MMSI that is not registered changes nothing
C30_OneSchedulePerTarget ==
    /\ [](OneSchedulePerTarget /\ DuePairsOnce)
    /\ [][RegistrationReplaces /\ RemoveOfUnregistered]_vars

\* target 1 was registered before target 2 and again, as a base station,
\* at a later time: its schedule is the new one, in the old place
C30_Witness ==
    /\ last_op = "add_base_station"
    /\ Len(vessel_schedules) = 2
    /\ vessel_schedules[1] = add_base_station(<<>>, 1, now)[1]
    /\ vessel_schedules[2].vessel_mmsi = 2
    /\ \E i \in 1..Len(vessel_schedules[2].messages) :
          vessel_schedules[2].messages[i].next_transmission < now

====
